---- MODULE Spec2Model ----
(***************************************************************************)
(* The team orchestration and event-streaming engine of theKanbanSociety:  *)
(* Runner.Run (the phase machine), the mode executors, the event channel   *)
(* Runner.Events, and the Kanban board (KanbanModel) that consumes it.     *)
(*                                                                         *)
(* One action is one step of a goroutine between two points where it       *)
(* touches shared state (the channel): every action holds at most one      *)
(* channel operation together with the local work that precedes it.        *)
(***************************************************************************)
EXTENDS Integers, Sequences, FiniteSets, TLC

(***************************************************************************)
(* Bounds of the model.                                                    *)
(***************************************************************************)
\* chunks a provider stream delivers at most, in the orchestration runs
MaxChunks == 1
\* chunks the one stream of the bus-capacity runs delivers at most
BusChunks == 94
\* numbered steps the PM's plan text holds at most
MaxSteps == 1
\* provider / file-system failures injected in one run at most
MaxFaults == 2
\* events the external producer of the board runs emits at most
MaxRoster == 3

MaxCheckpoints == 1

MaxCardEvents == 3

MaxTuiFaults == 1

MaxBoardEvents == 4

(***************************************************************************)
(* Program constants.                                                      *)
(***************************************************************************)
EventsCap == 100
PhaseNone == -1
PhaseAnalysis == 0
PhasePlanning == 1
PhaseExecution == 2
PhaseReview == 3
PhaseDelivery == 4
PhaseComplete == 5
ColumnBacklog == 0
ColumnInProgress == 1
ColumnReview == 2
ColumnDone == 3
PairIterations == 3
RoundRobinRounds == 2
HalfDone == 50

DebugLogCap == 100

SignificantLen == 50

\* a fragment of output of more than SignificantLen characters
LongFragment == "long"

LongFragmentLen == 51

WorkModes == {"pair_programming", "consultation", "round_robin", "divide_conquer", "free_form"}
Columns == ColumnBacklog..ColumnDone

\* fmt.Sprintf("step_%d", n) and fmt.Sprintf("subtask_%d", n)
StepIDs == <<"step_1", "step_2", "step_3", "step_4", "step_5", "step_6">>
SubtaskIDs == <<"subtask_1", "subtask_2", "subtask_3", "subtask_4">>

VARIABLES
    \* the environment of a run: what the providers and the file system may do
    streamLimit, stepLimit, faultsLeft,
    \* how the program was started
    opts, tui,
    \* Runner.Run and the mode executor it calls
    pc, session, runResult, loc,
    \* the divide-and-conquer workers
    wpc, wn, results, errors,
    \* Runner.Events, the clock behind Event.Timestamp
    Events, closed, now,
    \* every effect of the orchestration, in the order it happened
    trace,
    \* the Bubble Tea program and its KanbanModel
    listening, msgs, m, lastApplied,
    \* a CheckpointManager and the answer to its caller's last RequiresApproval
    cm, required,
    \* a stream returned by a provider's Stream: the lines its source will
    \* yield, its channel, and what the consumer has received
    stream,
    \* what RunTeamTUI has returned to its caller
    tuiErr

envVars == <<streamLimit, stepLimit, faultsLeft>>
\* what no step of a run changes: its options, its front end, and the
\* checkpoint manager (Run never calls it), and a provider stream of its own
optVars == <<opts, tui, cm, required, stream, tuiErr>>
runVars == <<pc, session, runResult, loc>>
workerVars == <<wpc, wn, results, errors>>
busVars == <<Events, closed, now>>
tuiVars == <<listening, msgs, m, lastApplied>>
vars == <<streamLimit, stepLimit, faultsLeft, opts, tui, pc, session, runResult, loc,
          wpc, wn, results, errors, Events, closed, now, trace,
          listening, msgs, m, lastApplied, cm, required, stream, tuiErr>>

(***************************************************************************)
(* Events (events.go).                                                     *)
(***************************************************************************)
NoData ==
    [kind |-> "nil", OldPhase |-> PhaseNone, NewPhase |-> PhaseNone, AssignedTo |-> "",
     IsBlocking |-> FALSE, DependsOn |-> <<>>, TaskID |-> "", Content |-> "",
     Progress |-> 0, PMID |-> "", WorkMode |-> "", Message |-> ""]

PhaseChangedData(old, new) ==
    [NoData EXCEPT !.kind = "PhaseChangedData", !.OldPhase = old, !.NewPhase = new]

PMSelectedData(pmid) ==
    [NoData EXCEPT !.kind = "PMSelectedData", !.PMID = pmid]

PMDecisionData(mode) ==
    [NoData EXCEPT !.kind = "PMDecisionData", !.WorkMode = mode]

TaskCreatedData(assignedTo, isBlocking, dependsOn) ==
    [NoData EXCEPT !.kind = "TaskCreatedData", !.AssignedTo = assignedTo,
                   !.IsBlocking = isBlocking, !.DependsOn = dependsOn]

\* Progress is in percent
TaskProgressData(content, progress) ==
    [NoData EXCEPT !.kind = "TaskProgressData", !.Content = content, !.Progress = progress]

ErrorData(taskID, message) ==
    [NoData EXCEPT !.kind = "ErrorData", !.TaskID = taskID, !.Message = message]

NewTaskEvent(eventType, taskID, actor, data) ==
    [Type |-> eventType, Timestamp |-> now, TaskID |-> taskID, Actor |-> actor, Data |-> data]

NewEvent(eventType, actor, data) ==
    NewTaskEvent(eventType, "", actor, data)

NoEvent == [Type |-> "none", Timestamp |-> 0, TaskID |-> "", Actor |-> "", Data |-> NoData]

(***************************************************************************)
(* The effects log.  k: emit | invoke | stream | approval | fs;  th: 0 for *)
(* the goroutine of Run, i for worker i;  ph: session.Phase at that time;  *)
(* ok: the event was accepted by the channel / the call succeeded.         *)
(***************************************************************************)
Eff(k, th, who, ok) ==
    [k |-> k, th |-> th, ph |-> session.Phase, ev |-> NoEvent, who |-> who, ok |-> ok,
     arg |-> <<>>]

EffEmit(th, e, accepted) ==
    [k |-> "emit", th |-> th, ph |-> session.Phase, ev |-> e, who |-> e.Actor, ok |-> accepted,
     arg |-> <<>>]

note(pre) ==
    /\ trace' = trace \o pre
    /\ UNCHANGED busVars

(***************************************************************************)
(* Runner.emit / ModeExecutor.emit: select { case ch <- event: default: }  *)
(* The event is appended when the buffer has room and dropped otherwise;   *)
(* creating the event (NewEvent) reads the clock.                          *)
(***************************************************************************)
\* a plain channel send: it waits for room in the buffer
send_blocking(e) ==
    /\ Len(Events) < EventsCap
    /\ Events' = Append(Events, e)
    /\ now' = now + 1
    /\ UNCHANGED closed

send(e) ==
    /\ Events' = IF Len(Events) < EventsCap THEN Append(Events, e) ELSE Events
    /\ now' = now + 1
    /\ UNCHANGED closed

\* an emit of goroutine th, logged; `pre` are the effects of the same step
\* that precede the send
emit(th, e, pre) ==
    /\ send(e)
    /\ trace' = trace \o pre \o <<EffEmit(th, e, Len(Events) < EventsCap)>>

(***************************************************************************)
(* PM selection (pm.go).  Text is a sequence of one-character strings, so  *)
(* that strings.Contains, strings.Fields and strings.ToLower are computed  *)
(* as the library computes them.                                           *)
(***************************************************************************)
GetPMStrengths ==
    <<[AIID |-> "claude", Strengths |-> <<
          <<"n", "u", "a", "n", "c", "e", "d", " ", "r", "e", "a", "s", "o", "n", "i", "n", "g">>,
          <<"w", "r", "i", "t", "i", "n", "g">>,
          <<"a", "n", "a", "l", "y", "s", "i", "s">>,
          <<"e", "t", "h", "i", "c", "s">>,
          <<"e", "x", "p", "l", "a", "n", "a", "t", "i", "o", "n">>,
          <<"d", "o", "c", "u", "m", "e", "n", "t", "a", "t", "i", "o", "n">>,
          <<"a", "r", "c", "h", "i", "t", "e", "c", "t", "u", "r", "e">>,
          <<"d", "e", "s", "i", "g", "n">>>>],
      [AIID |-> "gpt", Strengths |-> <<
          <<"c", "o", "d", "i", "n", "g">>,
          <<"i", "m", "p", "l", "e", "m", "e", "n", "t", "a", "t", "i", "o", "n">>,
          <<"d", "e", "b", "u", "g", "g", "i", "n", "g">>,
          <<"a", "p", "i", " ", "d", "e", "s", "i", "g", "n">>,
          <<"s", "y", "s", "t", "e", "m", " ", "d", "e", "s", "i", "g", "n">>,
          <<"d", "a", "t", "a", " ", "a", "n", "a", "l", "y", "s", "i", "s">>,
          <<"a", "l", "g", "o", "r", "i", "t", "h", "m", "s">>>>],
      [AIID |-> "gemini", Strengths |-> <<
          <<"r", "e", "s", "e", "a", "r", "c", "h">>,
          <<"m", "u", "l", "t", "i", "m", "o", "d", "a", "l">>,
          <<"i", "n", "f", "o", "r", "m", "a", "t", "i", "o", "n", " ", "s", "y", "n", "t", "h", "e", "s", "i", "s">>,
          <<"f", "a", "c", "t", " ", "c", "h", "e", "c", "k", "i", "n", "g">>,
          <<"s", "u", "m", "m", "a", "r", "i", "z", "a", "t", "i", "o", "n">>,
          <<"t", "r", "a", "n", "s", "l", "a", "t", "i", "o", "n">>>>],
      [AIID |-> "groq", Strengths |-> <<
          <<"s", "p", "e", "e", "d">>,
          <<"q", "u", "i", "c", "k", " ", "i", "t", "e", "r", "a", "t", "i", "o", "n">>,
          <<"b", "r", "a", "i", "n", "s", "t", "o", "r", "m", "i", "n", "g">>,
          <<"r", "a", "p", "i", "d", " ", "p", "r", "o", "t", "o", "t", "y", "p", "i", "n", "g">>>>]>>

codingKeywords ==
    <<<<"c", "o", "d", "e">>,
      <<"i", "m", "p", "l", "e", "m", "e", "n", "t">>,
      <<"b", "u", "i", "l", "d">>,
      <<"d", "e", "v", "e", "l", "o", "p">>,
      <<"p", "r", "o", "g", "r", "a", "m">>,
      <<"f", "u", "n", "c", "t", "i", "o", "n">>,
      <<"a", "p", "i">>,
      <<"d", "e", "b", "u", "g">>,
      <<"f", "i", "x">>>>

writingKeywords ==
    <<<<"w", "r", "i", "t", "e">>,
      <<"d", "o", "c", "u", "m", "e", "n", "t">>,
      <<"e", "x", "p", "l", "a", "i", "n">>,
      <<"a", "n", "a", "l", "y", "z", "e">>,
      <<"r", "e", "v", "i", "e", "w">>,
      <<"d", "e", "s", "i", "g", "n">>,
      <<"a", "r", "c", "h", "i", "t", "e", "c", "t">>,
      <<"p", "l", "a", "n">>>>

researchKeywords ==
    <<<<"r", "e", "s", "e", "a", "r", "c", "h">>,
      <<"f", "i", "n", "d">>,
      <<"s", "e", "a", "r", "c", "h">>,
      <<"c", "o", "m", "p", "a", "r", "e">>,
      <<"i", "n", "v", "e", "s", "t", "i", "g", "a", "t", "e">>,
      <<"s", "u", "m", "m", "a", "r", "i", "z", "e">>>>

quickKeywords ==
    <<<<"q", "u", "i", "c", "k">>,
      <<"f", "a", "s", "t">>,
      <<"s", "i", "m", "p", "l", "e">>,
      <<"p", "r", "o", "t", "o", "t", "y", "p", "e">>,
      <<"b", "r", "a", "i", "n", "s", "t", "o", "r", "m">>,
      <<"i", "t", "e", "r", "a", "t", "e">>>>

TaskBuildAPI == <<"B", "u", "i", "l", "d", " ", "a", " ", "R", "E", "S", "T", " ", "A", "P", "I">>

TaskQuickFix == <<"q", "u", "i", "c", "k", " ", "f", "i", "x">>

TaskFixPlan == <<"F", "i", "x", " ", "P", "l", "a", "n">>

TaskFastFix == <<"f", "a", "s", "t", " ", "f", "i", "x">>

TaskHello == <<"h", "e", "l", "l", "o">>

ToLowerRune(c) ==
    CASE c = "A" -> "a"
      [] c = "B" -> "b"
      [] c = "C" -> "c"
      [] c = "D" -> "d"
      [] c = "E" -> "e"
      [] c = "F" -> "f"
      [] c = "G" -> "g"
      [] c = "H" -> "h"
      [] c = "I" -> "i"
      [] c = "J" -> "j"
      [] c = "K" -> "k"
      [] c = "L" -> "l"
      [] c = "M" -> "m"
      [] c = "N" -> "n"
      [] c = "O" -> "o"
      [] c = "P" -> "p"
      [] c = "Q" -> "q"
      [] c = "R" -> "r"
      [] c = "S" -> "s"
      [] c = "T" -> "t"
      [] c = "U" -> "u"
      [] c = "V" -> "v"
      [] c = "W" -> "w"
      [] c = "X" -> "x"
      [] c = "Y" -> "y"
      [] c = "Z" -> "z"
      [] OTHER -> c

ToLower(s) ==
    [i \in 1..Len(s) |-> ToLowerRune(s[i])]

Contains(s, sub) ==
    \E i \in 0..(Len(s) - Len(sub)) : \A j \in 1..Len(sub) : s[i + j] = sub[j]

RECURSIVE FieldsFrom(_, _, _)
FieldsFrom(s, i, cur) ==
    IF i > Len(s)
    THEN (IF cur = <<>> THEN <<>> ELSE <<cur>>)
    ELSE IF s[i] = " "
         THEN (IF cur = <<>> THEN <<>> ELSE <<cur>>) \o FieldsFrom(s, i + 1, <<>>)
         ELSE FieldsFrom(s, i + 1, Append(cur, s[i]))

Fields(s) ==
    FieldsFrom(s, 1, <<>>)

RECURSIVE SumSeq(_)
SumSeq(q) ==
    IF q = <<>> THEN 0 ELSE Head(q) + SumSeq(Tail(q))

InRoster(member, roster) ==
    \E i \in 1..Len(roster) : roster[i] = member

AnyContains(task, keywords) ==
    \E i \in 1..Len(keywords) : Contains(task, keywords[i])

getTaskTypeBonus(task, aiID) ==
    (IF AnyContains(task, codingKeywords) /\ aiID = "gpt" THEN 3 ELSE 0)
    + (IF AnyContains(task, writingKeywords) /\ aiID = "claude" THEN 3 ELSE 0)
    + (IF AnyContains(task, researchKeywords) /\ aiID = "gemini" THEN 3 ELSE 0)
    + (IF AnyContains(task, quickKeywords) /\ aiID = "groq" THEN 3 ELSE 0)

StrengthScore(taskLower, strength) ==
    (IF Contains(taskLower, strength) THEN 2 ELSE 0)
    + SumSeq([w \in 1..Len(Fields(strength)) |->
                IF Contains(taskLower, Fields(strength)[w]) THEN 1 ELSE 0])

PMScore(taskLower, p) ==
    SumSeq([k \in 1..Len(p.Strengths) |-> StrengthScore(taskLower, p.Strengths[k])])
    + getTaskTypeBonus(taskLower, p.AIID)

\* the loop over GetPMStrengths(), from entry k on, with the best so far
RECURSIVE SelectLoop(_, _, _, _)
SelectLoop(taskLower, availableMembers, k, best) ==
    IF k > Len(GetPMStrengths)
    THEN best
    ELSE LET p == GetPMStrengths[k]
             score == PMScore(taskLower, p)
         IN  IF InRoster(p.AIID, availableMembers) /\ score > best.score
             THEN SelectLoop(taskLower, availableMembers, k + 1, [pm |-> p.AIID, score |-> score])
             ELSE SelectLoop(taskLower, availableMembers, k + 1, best)

\* the default is "claude" whether or not it is a member of the roster
Select_defaultUnchecked(task, availableMembers) ==
    LET best == SelectLoop(ToLower(task), availableMembers, 1, [pm |-> "", score |-> -1])
    IN  IF best.pm = "" THEN "claude" ELSE best.pm

\* PMSelector.Select: the member chosen; its error result is always nil
Select(task, availableMembers) ==
    LET best == SelectLoop(ToLower(task), availableMembers, 1, [pm |-> "", score |-> -1])
    IN  IF best.pm = ""
        THEN IF InRoster("claude", availableMembers) THEN "claude"
             ELSE IF Len(availableMembers) > 0 THEN availableMembers[1]
             ELSE ""
        ELSE best.pm

\* Runner.selectPM: (pm, err)
selectPM(o) ==
    IF o.PM # ""
    THEN [pm |-> o.PM, err |-> FALSE]
    ELSE [pm |-> Select(o.Task, o.Members), err |-> FALSE]

(***************************************************************************)
(* Plan parsing (team.go).  The PM's answer is its MODE: line ("" when it  *)
(* has none) and, for every numbered step line, the text of its            *)
(* [ASSIGNED: ] tag ("" when it has none).                                 *)
(***************************************************************************)
\* the MODE: line of the reply wins over the mode the caller forced
parseMode_replyFirst(modeLine, o) ==
    IF modeLine \in WorkModes THEN modeLine
    ELSE IF o.Mode # "" THEN o.Mode
    ELSE "free_form"

parseMode(modeLine, o) ==
    IF o.Mode # "" THEN o.Mode
    ELSE IF modeLine \in WorkModes THEN modeLine
    ELSE "free_form"

parsePlanResponse(content, o) ==
    [Steps |-> [k \in 1..Len(content.steps) |->
                  [ID |-> StepIDs[k], AssignedTo |-> content.steps[k],
                   DependsOn |-> <<>>, Status |-> "pending"]],
     mode |-> parseMode(content.modeLine, o)]

ModeLines == WorkModes \cup {"", "turbo"}
Assignees == {"gpt", "user"}

PlanTexts ==
    {[modeLine |-> ml, steps |-> st] :
        ml \in ModeLines, st \in UNION {[1..n -> Assignees] : n \in 0..stepLimit}}

\* Runner.requestApproval: prints and auto-approves
requestApproval ==
    TRUE

(***************************************************************************)
(* Failure injection: a provider call or a file-system call may fail while *)
(* the run's budget of failures lasts.                                     *)
(***************************************************************************)
Outcomes ==
    IF faultsLeft > 0 THEN {TRUE, FALSE} ELSE {TRUE}

spend(ok) ==
    faultsLeft' = IF ok THEN faultsLeft ELSE faultsLeft - 1

Invoke(who, ok) ==
    Eff("invoke", 0, who, ok)

\* an invocation whose prompt is built from earlier output: arg is that output
InvokeWith(who, ok, prior) ==
    [Invoke(who, ok) EXCEPT !.arg = prior]

N ==
    Len(session.Members)

(***************************************************************************)
(* Runner.Run (team.go).                                                   *)
(***************************************************************************)
\* resp holds the reply of the PM that the plan was parsed from, until the
\* mode executor starts
LocInit ==
    [i |-> 1, round |-> 1, iter |-> 0, driver |-> "", navigator |-> "", acc |-> <<>>,
     resp |-> <<>>]

SessionInit(o) ==
    [PM |-> "", Mode |-> "", Members |-> o.Members, Phase |-> PhaseAnalysis,
     ProjectDir |-> "", Steps |-> <<>>, Artifacts |-> <<>>]

PhaseChanged(old, new) ==
    NewEvent("PhaseChanged", "system", PhaseChangedData(old, new))

\* return fmt.Errorf(...): Run is over, with an error
returnErr ==
    /\ pc' = "returned"
    /\ runResult' = "err"

\* the error is returned and no event tells of it
emitErrorAndReturn_silent(message, pre) ==
    /\ note(pre)
    /\ returnErr

\* r.emit(NewEvent(EventError, ...)); return fmt.Errorf(...)
emitErrorAndReturn(message, pre) ==
    /\ emit(0, NewEvent("Error", "system", ErrorData("", message)), pre)
    /\ returnErr

\* session created, the PhaseChanged(-1, Analysis) event emitted
Run_Start ==
    /\ pc = "start"
    /\ emit(0, PhaseChanged(PhaseNone, PhaseAnalysis), <<>>)
    /\ pc' = "selectPM"
    /\ UNCHANGED <<session, runResult, loc, faultsLeft>>
    /\ UNCHANGED <<streamLimit, stepLimit, optVars, workerVars, tuiVars>>

\* Phase 1: selectPM, then the PMSelected event
Run_selectPM ==
    /\ pc = "selectPM"
    /\ \E r \in {selectPM(opts)} :
           IF r.err
           THEN /\ emitErrorAndReturn("PM selection failed", <<>>)
                /\ UNCHANGED session
           ELSE /\ session' = [session EXCEPT !.PM = r.pm]
                /\ emit(0, NewEvent("PMSelected", r.pm, PMSelectedData(r.pm)), <<>>)
                /\ pc' = "planning"
                /\ UNCHANGED runResult
    /\ UNCHANGED <<loc, faultsLeft>>
    /\ UNCHANGED <<streamLimit, stepLimit, optVars, workerVars, tuiVars>>

\* Phase 2 begins: PhaseChanged(Analysis, Planning), session.Phase = PhasePlanning
Run_EnterPlanning ==
    /\ pc = "planning"
    /\ emit(0, PhaseChanged(PhaseAnalysis, PhasePlanning), <<>>)
    /\ session' = [session EXCEPT !.Phase = PhasePlanning]
    /\ pc' = "createPlan"
    /\ UNCHANGED <<runResult, loc, faultsLeft>>
    /\ UNCHANGED <<streamLimit, stepLimit, optVars, workerVars, tuiVars>>

\* createPlan: one call of the PM; on success the plan and the mode are set
\* and the PMDecision event is emitted
Run_createPlan ==
    /\ pc = "createPlan"
    /\ \E ok \in Outcomes, content \in PlanTexts :
          /\ spend(ok)
          /\ IF ~ok
             THEN /\ emitErrorAndReturn("Planning failed", <<Invoke(session.PM, FALSE)>>)
                  /\ UNCHANGED <<session, loc>>
             ELSE LET parsed == parsePlanResponse(content, opts)
                  IN  /\ session' = [session EXCEPT !.Steps = parsed.Steps,
                                                    !.Mode = parsed.mode]
                      /\ emit(0, NewEvent("PMDecision", session.PM, PMDecisionData(parsed.mode)),
                              <<Invoke(session.PM, TRUE)>>)
                      /\ pc' = "taskCreated"
                      /\ loc' = [LocInit EXCEPT !.i = 1, !.resp = <<content>>]
                      /\ UNCHANGED runResult
    /\ UNCHANGED <<streamLimit, stepLimit, optVars, workerVars, tuiVars>>

\* for _, step := range plan.Steps { r.emitTask(EventTaskCreated, ...) }
Run_emitTaskCreated ==
    /\ pc = "taskCreated"
    /\ loc.i <= Len(session.Steps)
    /\ LET step == session.Steps[loc.i]
       IN  emit(0, NewTaskEvent("TaskCreated", step.ID, session.PM,
                                TaskCreatedData(step.AssignedTo, FALSE, step.DependsOn)), <<>>)
    /\ loc' = [loc EXCEPT !.i = loc.i + 1]
    /\ UNCHANGED <<pc, session, runResult, faultsLeft>>
    /\ UNCHANGED <<streamLimit, stepLimit, optVars, workerVars, tuiVars>>

\* the plan-approval checkpoint, the project directory, then Phase 3 begins:
\* PhaseChanged(Planning, Execution), session.Phase = PhaseExecution
Run_EnterExecution ==
    /\ pc = "taskCreated"
    /\ loc.i > Len(session.Steps)
    /\ \E mkdirOk \in (IF opts.OutputDir # "" THEN Outcomes ELSE {TRUE}) :
          LET asked == IF opts.CheckpointLevel # "none"
                       THEN <<Eff("approval", 0, "Plan Approval", requestApproval)>>
                       ELSE <<>>
              mk == IF opts.OutputDir # ""
                    THEN <<Eff("fs", 0, "MkdirAll", mkdirOk)>>
                    ELSE <<>>
          IN  /\ spend(mkdirOk)
              /\ IF opts.CheckpointLevel # "none" /\ ~requestApproval
                 THEN /\ note(asked)
                      /\ returnErr
                      /\ UNCHANGED session
                 ELSE IF ~mkdirOk
                 THEN /\ note(asked \o mk)
                      /\ returnErr
                      /\ session' = [session EXCEPT !.ProjectDir = opts.OutputDir]
                 ELSE /\ emit(0, PhaseChanged(PhasePlanning, PhaseExecution), asked \o mk)
                      /\ session' = [session EXCEPT !.ProjectDir = opts.OutputDir,
                                                    !.Phase = PhaseExecution]
                      /\ pc' = "execute"
                      /\ UNCHANGED runResult
    /\ UNCHANGED loc
    /\ UNCHANGED <<streamLimit, stepLimit, optVars, workerVars, tuiVars>>

(***************************************************************************)
(* ModeExecutor (modes.go).  An `Execute` that returns an error makes Run  *)
(* emit the "Execution failed" event and return; one that returns its      *)
(* artifact takes Run to the review.                                       *)
(***************************************************************************)
executeErr(pre) ==
    emitErrorAndReturn("Execution failed", pre)

executeOk(name, content, pre) ==
    /\ note(pre)
    /\ session' = [session EXCEPT !.Artifacts = <<[Name |-> name, Content |-> content]>>]
    /\ pc' = "review"
    /\ UNCHANGED runResult

Block(kind, by, round) ==
    [kind |-> kind, by |-> by, round |-> round]

\* Execute: the switch on session.Mode; pair programming checks its roster
Execute ==
    /\ pc = "execute"
    /\ IF session.Mode = "pair_programming" /\ N < 2
       THEN /\ executeErr(<<>>)
            /\ UNCHANGED loc
       ELSE /\ pc' = CASE session.Mode = "pair_programming" -> "pair_driver"
                       [] session.Mode = "consultation" -> "consult_init"
                       [] session.Mode = "round_robin" -> "round_robin"
                       [] session.Mode = "divide_conquer" -> "dc_divide"
                       [] OTHER -> "ff_members"
            /\ loc' = IF session.Mode = "pair_programming"
                      THEN [LocInit EXCEPT
                              !.driver = session.Members[1],
                              !.navigator = IF session.Members[1] = session.PM /\ N > 2
                                            THEN session.Members[3]
                                            ELSE session.Members[2]]
                      ELSE LocInit
            /\ note(<<>>)
            /\ UNCHANGED runResult
    /\ UNCHANGED <<session, faultsLeft>>
    /\ UNCHANGED <<streamLimit, stepLimit, optVars, workerVars, tuiVars>>

\* pair programming, the driver's turn of iteration loc.iter
Pair_Driver ==
    /\ pc = "pair_driver"
    /\ \E ok \in Outcomes :
          /\ spend(ok)
          /\ IF ~ok
             THEN /\ executeErr(<<Invoke(loc.driver, FALSE)>>)
                  /\ UNCHANGED loc
             ELSE /\ note(<<Invoke(loc.driver, TRUE)>>)
                  /\ loc' = [loc EXCEPT !.acc = Append(@, Block("driver", loc.driver, loc.iter + 1))]
                  /\ pc' = "pair_navigator"
                  /\ UNCHANGED runResult
    /\ UNCHANGED session
    /\ UNCHANGED <<streamLimit, stepLimit, optVars, workerVars, tuiVars>>

\* the navigator's review with the roles kept for the next iteration
Pair_Navigator_keepingRoles ==
    /\ pc = "pair_navigator"
    /\ \E ok \in Outcomes :
          LET acc == IF ok THEN Append(loc.acc, Block("navigator", loc.navigator, loc.iter + 1))
                     ELSE loc.acc
          IN  /\ spend(ok)
              /\ loc' = [loc EXCEPT !.acc = acc, !.iter = loc.iter + 1]
              /\ IF loc.iter + 1 < PairIterations
                 THEN /\ note(<<Invoke(loc.navigator, ok)>>)
                      /\ pc' = "pair_driver"
                      /\ UNCHANGED <<session, runResult>>
                 ELSE executeOk("pair_output.md", acc, <<Invoke(loc.navigator, ok)>>)
    /\ UNCHANGED <<streamLimit, stepLimit, optVars, workerVars, tuiVars>>

\* pair programming, the navigator's review, the swap of roles, and after the
\* last iteration the artifact
Pair_Navigator ==
    /\ pc = "pair_navigator"
    /\ \E ok \in Outcomes :
          LET acc == IF ok THEN Append(loc.acc, Block("navigator", loc.navigator, loc.iter + 1))
                     ELSE loc.acc
          IN  /\ spend(ok)
              /\ loc' = [loc EXCEPT !.acc = acc, !.iter = loc.iter + 1,
                                    !.driver = loc.navigator, !.navigator = loc.driver]
              /\ IF loc.iter + 1 < PairIterations
                 THEN /\ note(<<Invoke(loc.navigator, ok)>>)
                      /\ pc' = "pair_driver"
                      /\ UNCHANGED <<session, runResult>>
                 ELSE executeOk("pair_output.md", acc, <<Invoke(loc.navigator, ok)>>)
    /\ UNCHANGED <<streamLimit, stepLimit, optVars, workerVars, tuiVars>>

\* consultation: the PM's initial approach
Consult_Init ==
    /\ pc = "consult_init"
    /\ \E ok \in Outcomes :
          /\ spend(ok)
          /\ IF ~ok
             THEN /\ executeErr(<<Invoke(session.PM, FALSE)>>)
                  /\ UNCHANGED loc
             ELSE /\ note(<<Invoke(session.PM, TRUE)>>)
                  /\ loc' = [loc EXCEPT !.acc = <<Block("pm_initial", session.PM, 0)>>, !.i = 1]
                  /\ pc' = "consult_members"
                  /\ UNCHANGED runResult
    /\ UNCHANGED session
    /\ UNCHANGED <<streamLimit, stepLimit, optVars, workerVars, tuiVars>>

\* consultation: member loc.i is consulted, unless it is the PM
Consult_Member ==
    /\ pc = "consult_members"
    /\ loc.i <= N
    /\ LET member == session.Members[loc.i]
       IN  \E ok \in (IF member = session.PM THEN {TRUE} ELSE Outcomes) :
              /\ spend(ok)
              /\ IF member = session.PM
                 THEN /\ note(<<>>)
                      /\ loc' = [loc EXCEPT !.i = loc.i + 1]
                 ELSE /\ note(<<Invoke(member, ok)>>)
                      /\ loc' = [loc EXCEPT !.i = loc.i + 1,
                                            !.acc = IF ok THEN Append(@, Block("input", member, 0))
                                                    ELSE @]
    /\ UNCHANGED <<pc, session, runResult>>
    /\ UNCHANGED <<streamLimit, stepLimit, optVars, workerVars, tuiVars>>

\* consultation: the PM's final deliverable
Consult_Final ==
    /\ pc = "consult_members"
    /\ loc.i > N
    /\ \E ok \in Outcomes :
          /\ spend(ok)
          /\ IF ~ok
             THEN /\ executeErr(<<Invoke(session.PM, FALSE)>>)
                  /\ UNCHANGED session
             ELSE executeOk("consultation_output.md", <<Block("final", session.PM, 0)>>,
                            <<Invoke(session.PM, TRUE)>>)
    /\ UNCHANGED loc
    /\ UNCHANGED <<streamLimit, stepLimit, optVars, workerVars, tuiVars>>

\* a member whose call failed still gets a block in the transcript
RoundRobin_Member_keepingFailed ==
    /\ pc = "round_robin"
    /\ loc.round <= RoundRobinRounds
    /\ loc.i <= N
    /\ LET member == session.Members[loc.i]
       IN  \E ok \in Outcomes :
              /\ spend(ok)
              /\ note(<<InvokeWith(member, ok, loc.acc)>>)
              /\ loc' = [loc EXCEPT
                           !.acc = Append(@, Block("contribution", member, loc.round)),
                           !.i = IF loc.i < N THEN loc.i + 1 ELSE 1,
                           !.round = IF loc.i < N THEN loc.round ELSE loc.round + 1]
    /\ UNCHANGED <<pc, session, runResult>>
    /\ UNCHANGED <<streamLimit, stepLimit, optVars, workerVars, tuiVars>>

\* round robin: member loc.i contributes in round loc.round
RoundRobin_Member ==
    /\ pc = "round_robin"
    /\ loc.round <= RoundRobinRounds
    /\ loc.i <= N
    /\ LET member == session.Members[loc.i]
       IN  \E ok \in Outcomes :
              /\ spend(ok)
              /\ note(<<InvokeWith(member, ok, loc.acc)>>)
              /\ loc' = [loc EXCEPT
                           !.acc = IF ok THEN Append(@, Block("contribution", member, loc.round))
                                   ELSE @,
                           !.i = IF loc.i < N THEN loc.i + 1 ELSE 1,
                           !.round = IF loc.i < N THEN loc.round ELSE loc.round + 1]
    /\ UNCHANGED <<pc, session, runResult>>
    /\ UNCHANGED <<streamLimit, stepLimit, optVars, workerVars, tuiVars>>

\* round robin: both rounds are over (or the roster is empty), the artifact
RoundRobin_Return ==
    /\ pc = "round_robin"
    /\ loc.round > RoundRobinRounds \/ N = 0
    /\ executeOk("round_robin_output.md", loc.acc, <<>>)
    /\ UNCHANGED <<loc, faultsLeft>>
    /\ UNCHANGED <<streamLimit, stepLimit, optVars, workerVars, tuiVars>>

\* free form: member loc.i brainstorms
FreeForm_Member ==
    /\ pc = "ff_members"
    /\ loc.i <= N
    /\ LET member == session.Members[loc.i]
       IN  \E ok \in Outcomes :
              /\ spend(ok)
              /\ note(<<Invoke(member, ok)>>)
              /\ loc' = [loc EXCEPT
                           !.acc = IF ok THEN Append(@, Block("thoughts", member, 0)) ELSE @,
                           !.i = loc.i + 1]
    /\ UNCHANGED <<pc, session, runResult>>
    /\ UNCHANGED <<streamLimit, stepLimit, optVars, workerVars, tuiVars>>

\* free form: the PM's synthesis
FreeForm_Synthesis ==
    /\ pc = "ff_members"
    /\ loc.i > N
    /\ \E ok \in Outcomes :
          /\ spend(ok)
          /\ IF ~ok
             THEN executeErr(<<Invoke(session.PM, FALSE)>>)
             ELSE /\ note(<<Invoke(session.PM, TRUE)>>)
                  /\ pc' = "ff_final"
                  /\ UNCHANGED runResult
    /\ UNCHANGED <<session, loc>>
    /\ UNCHANGED <<streamLimit, stepLimit, optVars, workerVars, tuiVars>>

\* free form: the PM's final output
FreeForm_Final ==
    /\ pc = "ff_final"
    /\ \E ok \in Outcomes :
          /\ spend(ok)
          /\ IF ~ok
             THEN /\ executeErr(<<Invoke(session.PM, FALSE)>>)
                  /\ UNCHANGED session
             ELSE executeOk("freeform_output.md", <<Block("final", session.PM, 0)>>,
                            <<Invoke(session.PM, TRUE)>>)
    /\ UNCHANGED loc
    /\ UNCHANGED <<streamLimit, stepLimit, optVars, workerVars, tuiVars>>

(***************************************************************************)
(* executeDivideConquer (modes.go): the divide call, one goroutine per     *)
(* member, wg.Wait, the merge call.                                        *)
(***************************************************************************)
WorkersInit(o) ==
    [i \in 1..Len(o.Members) |-> "idle"]

\* the PM divides the task
DC_Divide ==
    /\ pc = "dc_divide"
    /\ \E ok \in Outcomes :
          /\ spend(ok)
          /\ IF ~ok
             THEN /\ executeErr(<<Invoke(session.PM, FALSE)>>)
                  /\ UNCHANGED loc
             ELSE /\ note(<<Invoke(session.PM, TRUE)>>)
                  /\ pc' = "dc_spawn"
                  /\ loc' = [loc EXCEPT !.i = 1]
                  /\ UNCHANGED runResult
    /\ UNCHANGED session
    /\ UNCHANGED <<streamLimit, stepLimit, optVars, workerVars, tuiVars>>

\* wg.Add(1); e.emitTask(EventTaskStarted, taskID, member, nil); go func(...)
DC_Spawn ==
    /\ pc = "dc_spawn"
    /\ loc.i <= N
    /\ emit(0, NewTaskEvent("TaskStarted", SubtaskIDs[loc.i], session.Members[loc.i], NoData), <<>>)
    /\ wpc' = [wpc EXCEPT ![loc.i] = "stream"]
    /\ loc' = [loc EXCEPT !.i = loc.i + 1]
    /\ UNCHANGED <<pc, session, runResult, faultsLeft, wn, results, errors>>
    /\ UNCHANGED <<streamLimit, stepLimit, optVars, tuiVars>>

\* worker idx: e.registry.Stream fails: errors[idx] = err, the Error event
Worker_StreamFails(idx) ==
    /\ wpc[idx] = "stream"
    /\ faultsLeft > 0
    /\ spend(FALSE)
    /\ emit(idx, NewTaskEvent("Error", SubtaskIDs[idx], session.Members[idx],
                              ErrorData(SubtaskIDs[idx], "")),
            <<Eff("stream", idx, session.Members[idx], FALSE)>>)
    /\ errors' = [errors EXCEPT ![idx] = TRUE]
    /\ wpc' = [wpc EXCEPT ![idx] = "returned"]
    /\ UNCHANGED <<wn, results>>
    /\ UNCHANGED <<streamLimit, stepLimit, optVars, runVars, tuiVars>>

\* worker idx: e.registry.Stream returns the channel
Worker_Stream(idx) ==
    /\ wpc[idx] = "stream"
    /\ note(<<Eff("stream", idx, session.Members[idx], TRUE)>>)
    /\ wpc' = [wpc EXCEPT ![idx] = "chunks"]
    /\ UNCHANGED <<wn, results, errors>>
    /\ UNCHANGED <<envVars, optVars, runVars, tuiVars>>

\* worker idx: a content chunk: content.WriteString, the TaskProgress event
Worker_Chunk(idx) ==
    /\ wpc[idx] = "chunks"
    /\ wn[idx] < streamLimit
    /\ emit(idx, NewTaskEvent("TaskProgress", SubtaskIDs[idx], session.Members[idx],
                              TaskProgressData("c", HalfDone)), <<>>)
    /\ wn' = [wn EXCEPT ![idx] = wn[idx] + 1]
    /\ UNCHANGED <<wpc, results, errors>>
    /\ UNCHANGED <<envVars, optVars, runVars, tuiVars>>

\* the output received before the error chunk is kept as the worker's result
Worker_ChunkError_keepingPartial(idx) ==
    /\ wpc[idx] = "chunks"
    /\ faultsLeft > 0
    /\ spend(FALSE)
    /\ note(<<Eff("chunk", idx, session.Members[idx], FALSE)>>)
    /\ errors' = [errors EXCEPT ![idx] = TRUE]
    /\ results' = [results EXCEPT ![idx] = <<[kind |-> "subtask", by |-> session.Members[idx],
                                             round |-> idx, chunks |-> wn[idx]]>>]
    /\ wpc' = [wpc EXCEPT ![idx] = "returned"]
    /\ UNCHANGED wn
    /\ UNCHANGED <<streamLimit, stepLimit, optVars, runVars, tuiVars>>

\* worker idx: a chunk with an error: errors[idx] = chunk.Error; return
Worker_ChunkError(idx) ==
    /\ wpc[idx] = "chunks"
    /\ faultsLeft > 0
    /\ spend(FALSE)
    /\ note(<<Eff("chunk", idx, session.Members[idx], FALSE)>>)
    /\ errors' = [errors EXCEPT ![idx] = TRUE]
    /\ wpc' = [wpc EXCEPT ![idx] = "returned"]
    /\ UNCHANGED <<wn, results>>
    /\ UNCHANGED <<streamLimit, stepLimit, optVars, runVars, tuiVars>>

\* the result of a worker goes to the first slot that is still empty
Worker_Complete_inFinishOrder(idx) ==
    /\ wpc[idx] = "chunks"
    /\ wn[idx] = streamLimit
    /\ emit(idx, NewTaskEvent("TaskCompleted", SubtaskIDs[idx], session.Members[idx], NoData), <<>>)
    /\ LET free == {k \in DOMAIN results : results[k] = <<>>}
           slot == CHOOSE k \in free : \A j \in free : k <= j
       IN  results' = [results EXCEPT ![slot] = <<[kind |-> "subtask", by |-> session.Members[idx],
                                                  round |-> idx, chunks |-> wn[idx]]>>]
    /\ wpc' = [wpc EXCEPT ![idx] = "returned"]
    /\ UNCHANGED <<wn, errors>>
    /\ UNCHANGED <<envVars, optVars, runVars, tuiVars>>

\* worker idx: the stream is closed: results[idx] is set, the TaskCompleted event
Worker_Complete(idx) ==
    /\ wpc[idx] = "chunks"
    /\ wn[idx] = streamLimit
    /\ emit(idx, NewTaskEvent("TaskCompleted", SubtaskIDs[idx], session.Members[idx], NoData), <<>>)
    /\ results' = [results EXCEPT ![idx] = <<[kind |-> "subtask", by |-> session.Members[idx],
                                             round |-> idx, chunks |-> wn[idx]]>>]
    /\ wpc' = [wpc EXCEPT ![idx] = "returned"]
    /\ UNCHANGED <<wn, errors>>
    /\ UNCHANGED <<envVars, optVars, runVars, tuiVars>>

Worker ==
    \E idx \in DOMAIN wpc :
        \/ Worker_StreamFails(idx)
        \/ Worker_Stream(idx)
        \/ Worker_Chunk(idx)
        \/ Worker_ChunkError(idx)
        \/ Worker_Complete(idx)

RECURSIVE allResults(_, _)
allResults(res, k) ==
    IF k > Len(res) THEN <<>> ELSE res[k] \o allResults(res, k + 1)

\* the merge does not wait for the workers
DC_Merge_unjoined ==
    /\ pc = "dc_spawn"
    /\ loc.i > N
    /\ \E ok \in Outcomes :
          /\ spend(ok)
          /\ loc' = [loc EXCEPT !.acc = allResults(results, 1)]
          /\ IF ~ok
             THEN /\ executeErr(<<InvokeWith(session.PM, FALSE, allResults(results, 1))>>)
                  /\ UNCHANGED session
             ELSE executeOk("merged_output.md", <<Block("merged", session.PM, 0)>>,
                            <<InvokeWith(session.PM, TRUE, allResults(results, 1))>>)
    /\ UNCHANGED <<streamLimit, stepLimit, optVars, workerVars, tuiVars>>

\* wg.Wait() has returned; the PM merges the results
DC_Merge ==
    /\ pc = "dc_spawn"
    /\ loc.i > N
    /\ \A idx \in DOMAIN wpc : wpc[idx] = "returned"
    /\ \E ok \in Outcomes :
          /\ spend(ok)
          /\ loc' = [loc EXCEPT !.acc = allResults(results, 1)]
          /\ IF ~ok
             THEN /\ executeErr(<<InvokeWith(session.PM, FALSE, allResults(results, 1))>>)
                  /\ UNCHANGED session
             ELSE executeOk("merged_output.md", <<Block("merged", session.PM, 0)>>,
                            <<InvokeWith(session.PM, TRUE, allResults(results, 1))>>)
    /\ UNCHANGED <<streamLimit, stepLimit, optVars, workerVars, tuiVars>>

\* the Review phase is skipped: the phase is set to Delivery
Run_EnterReview_skipping ==
    /\ pc = "review"
    /\ emit(0, PhaseChanged(PhaseExecution, PhaseReview), <<>>)
    /\ session' = [session EXCEPT !.Phase = PhaseDelivery]
    /\ pc' = "runReview"
    /\ UNCHANGED <<runResult, loc, faultsLeft>>
    /\ UNCHANGED <<streamLimit, stepLimit, optVars, workerVars, tuiVars>>

(***************************************************************************)
(* Runner.Run, after Execute.                                              *)
(***************************************************************************)
\* Phase 4 begins: PhaseChanged(Execution, Review), session.Phase = PhaseReview
Run_EnterReview ==
    /\ pc = "review"
    /\ emit(0, PhaseChanged(PhaseExecution, PhaseReview), <<>>)
    /\ session' = [session EXCEPT !.Phase = PhaseReview]
    /\ pc' = "runReview"
    /\ UNCHANGED <<runResult, loc, faultsLeft>>
    /\ UNCHANGED <<streamLimit, stepLimit, optVars, workerVars, tuiVars>>

\* runReview: one call of the PM; its failure is returned
Run_runReview ==
    /\ pc = "runReview"
    /\ \E ok \in Outcomes :
          /\ spend(ok)
          /\ note(<<Invoke(session.PM, ok)>>)
          /\ IF ~ok
             THEN returnErr
             ELSE /\ pc' = "delivery"
                  /\ UNCHANGED runResult
    /\ UNCHANGED <<session, loc>>
    /\ UNCHANGED <<streamLimit, stepLimit, optVars, workerVars, tuiVars>>

\* the Delivery phase is entered and no event tells of it
Run_EnterDelivery_silent ==
    /\ pc = "delivery"
    /\ note(<<>>)
    /\ session' = [session EXCEPT !.Phase = PhaseDelivery]
    /\ pc' = "deliver"
    /\ UNCHANGED <<runResult, loc, faultsLeft>>
    /\ UNCHANGED <<streamLimit, stepLimit, optVars, workerVars, tuiVars>>

\* Phase 5 begins: PhaseChanged(Review, Delivery), session.Phase = PhaseDelivery
Run_EnterDelivery ==
    /\ pc = "delivery"
    /\ emit(0, PhaseChanged(PhaseReview, PhaseDelivery), <<>>)
    /\ session' = [session EXCEPT !.Phase = PhaseDelivery]
    /\ pc' = "deliver"
    /\ UNCHANGED <<runResult, loc, faultsLeft>>
    /\ UNCHANGED <<streamLimit, stepLimit, optVars, workerVars, tuiVars>>

\* deliver: the artifacts are saved when a project directory is set, the
\* summary is written; failures are warnings.  The effects of deliver.
\* saveOk[k] is the outcome of the save of the k-th artifact.
deliver(saveOk, summaryOk) ==
    (IF session.ProjectDir # ""
     THEN [k \in 1..Len(session.Artifacts) |-> Eff("fs", 0, session.Artifacts[k].Name, saveOk[k])]
     ELSE <<>>)
    \o <<Eff("fs", 0, "SESSION_SUMMARY.md", summaryOk)>>

\* the outcomes the saves of the artifacts can have
SaveOutcomes ==
    IF session.ProjectDir # "" THEN [1..Len(session.Artifacts) -> Outcomes]
    ELSE {[k \in 1..Len(session.Artifacts) |-> TRUE]}

Failures(saveOk, summaryOk) ==
    Cardinality({k \in DOMAIN saveOk : ~saveOk[k]}) + (IF summaryOk THEN 0 ELSE 1)

\* deliver stops at the first failed save and Run returns its error
Run_deliver_abortingOnFailure ==
    /\ pc = "deliver"
    /\ \E saveOk \in SaveOutcomes, summaryOk \in Outcomes :
          /\ Failures(saveOk, summaryOk) <= faultsLeft
          /\ faultsLeft' = faultsLeft - Failures(saveOk, summaryOk)
          /\ IF \A k \in DOMAIN saveOk : saveOk[k]
             THEN /\ emit(0, NewEvent("SessionComplete", "system", NoData),
                          deliver(saveOk, summaryOk))
                  /\ session' = [session EXCEPT !.Phase = PhaseComplete]
                  /\ pc' = "returned"
                  /\ runResult' = "ok"
             ELSE /\ note(<<Eff("fs", 0, session.Artifacts[1].Name, FALSE)>>)
                  /\ returnErr
                  /\ UNCHANGED session
    /\ UNCHANGED loc
    /\ UNCHANGED <<streamLimit, stepLimit, optVars, workerVars, tuiVars>>

\* deliver returns nil; session.Phase = PhaseComplete; the SessionComplete
\* event; Run returns nil
Run_deliver ==
    /\ pc = "deliver"
    /\ \E saveOk \in SaveOutcomes, summaryOk \in Outcomes :
          /\ Failures(saveOk, summaryOk) <= faultsLeft
          /\ faultsLeft' = faultsLeft - Failures(saveOk, summaryOk)
          /\ emit(0, NewEvent("SessionComplete", "system", NoData), deliver(saveOk, summaryOk))
    /\ session' = [session EXCEPT !.Phase = PhaseComplete]
    /\ pc' = "returned"
    /\ runResult' = "ok"
    /\ UNCHANGED loc
    /\ UNCHANGED <<streamLimit, stepLimit, optVars, workerVars, tuiVars>>

RunStep ==
    \/ Run_Start
    \/ Run_selectPM
    \/ Run_EnterPlanning
    \/ Run_createPlan
    \/ Run_emitTaskCreated
    \/ Run_EnterExecution
    \/ Execute
    \/ Run_EnterReview
    \/ Run_runReview
    \/ Run_EnterDelivery
    \/ Run_deliver

SequentialModes ==
    \/ Pair_Driver
    \/ Pair_Navigator
    \/ Consult_Init
    \/ Consult_Member
    \/ Consult_Final
    \/ RoundRobin_Member
    \/ RoundRobin_Return
    \/ FreeForm_Member
    \/ FreeForm_Synthesis
    \/ FreeForm_Final

DivideConquer ==
    \/ DC_Divide
    \/ DC_Spawn
    \/ Worker
    \/ DC_Merge

(***************************************************************************)
(* The Kanban board (KanbanCard, KanbanModel).  Cards are objects: `heap`  *)
(* holds them, `cards` maps a task ID to a card's address, and the column  *)
(* lists hold addresses, as the Go maps and slices hold *KanbanCard.       *)
(***************************************************************************)
NewKanbanCard(id, assignedTo) ==
    [ID |-> id, AssignedTo |-> assignedTo, Column |-> ColumnBacklog, IsBlocking |-> FALSE,
     IsUserTask |-> (assignedTo = "user"), StreamBuf |-> <<>>, FullHistory |-> <<>>,
     Progress |-> 0, DependsOn |-> <<>>, BlockedBy |-> <<>>, Done |-> FALSE, Error |-> FALSE]

\* KanbanCard.IsBlocked
IsBlocked(c) ==
    Len(c.BlockedBy) > 0

NewKanbanModel ==
    [pm |-> "", pmPhase |-> PhaseAnalysis, workMode |-> "", paused |-> FALSE,
     heap |-> <<>>, cards |-> <<>>,
     columns |-> [c \in Columns |-> <<>>],
     selectedCol |-> ColumnBacklog, selectedRow |-> 0, activeCardID |-> "",
     showPopup |-> FALSE, popupCardID |-> "", popupScroll |-> 0,
     showHelp |-> FALSE, showDebugLog |-> FALSE, debugLog |-> <<>>, logged |-> 0,
     complete |-> FALSE, quitting |-> FALSE]

\* every entry is added and none is ever dropped
addDebugLog_unbounded(km, logType, actor) ==
    [km EXCEPT !.debugLog = Append(@, [Timestamp |-> km.logged + 1, Type |-> logType,
                                       Actor |-> actor]),
               !.logged = @ + 1]

\* KanbanModel.addDebugLog: the entry is appended, the last DebugLogCap
\* entries are kept.  logged counts the entries ever added: it is the clock
\* behind entry.Timestamp; the message text of an entry is left out.
addDebugLog(km, logType, actor) ==
    LET entry == [Timestamp |-> km.logged + 1, Type |-> logType, Actor |-> actor]
        all == Append(km.debugLog, entry)
    IN  [km EXCEPT !.debugLog = IF Len(all) > DebugLogCap
                                THEN SubSeq(all, Len(all) - DebugLogCap + 1, Len(all))
                                ELSE all,
                   !.logged = @ + 1]

\* len(data.Content) of a progress fragment
ContentLen(content) ==
    IF content = LongFragment THEN LongFragmentLen ELSE 1

hasCard(km, id) ==
    id \in DOMAIN km.cards

\* the card stays in the list of its old column
moveCard_keepingOld(km, p, toColumn) ==
    [km EXCEPT !.columns = [@ EXCEPT ![toColumn] = Append(@, p)],
               !.heap = [@ EXCEPT ![p].Column = toColumn]]

\* KanbanModel.moveCard: every entry with the card's ID leaves the card's
\* column list, the card's Column is set, the card is appended to the new list
moveCard(km, p, toColumn) ==
    LET card == km.heap[p]
        removed == [km.columns EXCEPT
                      ![card.Column] = SelectSeq(@, LAMBDA q : km.heap[q].ID # card.ID)]
    IN  [km EXCEPT !.columns = [removed EXCEPT ![toColumn] = Append(@, p)],
                   !.heap = [@ EXCEPT ![p].Column = toColumn]]

\* the two task-created cases: a new card object, stored under the task ID
\* and appended to the Backlog list
addCard(km, card) ==
    LET p == Len(km.heap) + 1
    IN  [km EXCEPT !.heap = Append(@, card),
                   !.cards = (card.ID :> p) @@ @,
                   !.columns = [@ EXCEPT ![ColumnBacklog] = Append(@, p)]]

\* KanbanModel.handleTeamEventCopy: every event is logged, then applied
handleTeamEventCopy(model, event) ==
    LET km == addDebugLog(model, "event", event.Actor)
        data == event.Data
        id == event.TaskID
    IN  CASE event.Type = "PhaseChanged" ->
               IF data.kind = "PhaseChangedData"
               THEN addDebugLog([km EXCEPT !.pmPhase = data.NewPhase], "phase", "system")
               ELSE km
          [] event.Type = "PMSelected" ->
               IF data.kind = "PMSelectedData"
               THEN addDebugLog([km EXCEPT !.pm = data.PMID], "pm", data.PMID)
               ELSE km
          [] event.Type = "PMDecision" ->
               IF data.kind = "PMDecisionData"
               THEN addDebugLog([km EXCEPT !.pm = event.Actor, !.workMode = data.WorkMode],
                                "decision", event.Actor)
               ELSE [km EXCEPT !.pm = event.Actor]
          [] event.Type = "TaskCreated" ->
               IF data.kind = "TaskCreatedData"
               THEN addDebugLog(addCard(km, [NewKanbanCard(id, data.AssignedTo) EXCEPT
                                               !.DependsOn = data.DependsOn,
                                               !.IsBlocking = data.IsBlocking,
                                               !.IsUserTask = (data.AssignedTo = "user")]),
                                "task", data.AssignedTo)
               ELSE km
          [] event.Type = "TaskStarted" ->
               IF hasCard(km, id)
               THEN addDebugLog([moveCard(km, km.cards[id], ColumnInProgress)
                                   EXCEPT !.activeCardID = id],
                                "cmd", event.Actor)
               ELSE km
          [] event.Type = "TaskProgress" ->
               IF hasCard(km, id) /\ data.kind = "TaskProgressData"
               THEN LET written ==
                          [km EXCEPT !.heap = [@ EXCEPT
                                 ![km.cards[id]].StreamBuf = Append(@, data.Content),
                                 ![km.cards[id]].FullHistory = Append(@, data.Content),
                                 ![km.cards[id]].Progress = data.Progress]]
                    IN  IF ContentLen(data.Content) > SignificantLen
                        THEN addDebugLog(written, "response", event.Actor)
                        ELSE written
               ELSE km
          [] event.Type = "TaskCompleted" ->
               IF hasCard(km, id)
               THEN addDebugLog(
                      moveCard([km EXCEPT !.heap = [@ EXCEPT ![km.cards[id]].Done = TRUE]],
                               km.cards[id], ColumnReview),
                      "task", event.Actor)
               ELSE km
          [] event.Type = "TaskMovedToReview" ->
               IF hasCard(km, id)
               THEN addDebugLog(moveCard(km, km.cards[id], ColumnReview), "review", "pm")
               ELSE km
          [] event.Type = "PMApproved" ->
               IF hasCard(km, id)
               THEN addDebugLog(moveCard(km, km.cards[id], ColumnDone), "approved", "pm")
               ELSE km
          [] event.Type = "UserTaskCreated" ->
               IF data.kind = "TaskCreatedData"
               THEN addDebugLog(addCard(km, [NewKanbanCard(id, "user") EXCEPT
                                               !.DependsOn = data.DependsOn,
                                               !.IsBlocking = data.IsBlocking,
                                               !.IsUserTask = TRUE]),
                                "user", "pm")
               ELSE km
          [] event.Type = "SessionComplete" ->
               addDebugLog([km EXCEPT !.complete = TRUE], "complete", "system")
          [] event.Type = "Error" ->
               IF data.kind = "ErrorData"
               THEN addDebugLog(
                      IF hasCard(km, data.TaskID)
                      THEN [km EXCEPT !.heap = [@ EXCEPT ![km.cards[data.TaskID]].Error = TRUE]]
                      ELSE km,
                      "error", event.Actor)
               ELSE km
          [] OTHER -> km

\* KanbanModel.getSelectedCard: the address of the selected card, 0 for nil
getSelectedCard(km) ==
    LET col == km.columns[km.selectedCol]
    IN  IF Len(col) = 0 THEN 0
        ELSE IF km.selectedRow >= 0 /\ km.selectedRow < Len(col) THEN col[km.selectedRow + 1]
        ELSE col[1]

\* KanbanModel.renderColumn, for the selected column: the address of the card
\* it renders as selected, 0 if it renders none so; the limit the height of
\* the window puts on the number of cards shown is left out
renderedSelected(km) ==
    LET col == km.columns[km.selectedCol]
        at == {i \in 1..Len(col) : i - 1 = km.selectedRow}
    IN  IF at = {} THEN 0 ELSE col[CHOOSE i \in at : TRUE]

\* KanbanModel.completeUserTask
completeUserTask(km, taskID) ==
    IF hasCard(km, taskID) /\ km.heap[km.cards[taskID]].IsUserTask
    THEN moveCard([km EXCEPT !.heap = [@ EXCEPT ![km.cards[taskID]].Done = TRUE]],
                  km.cards[taskID], ColumnDone)
    ELSE km

\* KanbanModel.cycleActiveCard
cycleActiveCard(km) ==
    LET inProgress == km.columns[ColumnInProgress]
        found == {i \in 1..Len(inProgress) : km.heap[inProgress[i]].ID = km.activeCardID}
        currentIdx == IF found = {} THEN -1
                      ELSE (CHOOSE i \in found : \A j \in found : i <= j) - 1
    IN  IF Len(inProgress) = 0
        THEN [km EXCEPT !.activeCardID = ""]
        ELSE [km EXCEPT !.activeCardID =
                          km.heap[inProgress[((currentIdx + 1) % Len(inProgress)) + 1]].ID]

\* KanbanModel.handleKey
handleKey(km, key) ==
    CASE key \in {"q", "ctrl+c"} -> [km EXCEPT !.quitting = TRUE]
      [] key = "?" -> [km EXCEPT !.showHelp = ~km.showHelp]
      [] key \in {"backtick", "~"} -> [km EXCEPT !.showDebugLog = ~km.showDebugLog]
      [] key \in {"h", "left"} ->
           IF km.selectedCol > ColumnBacklog
           THEN [km EXCEPT !.selectedCol = km.selectedCol - 1, !.selectedRow = 0]
           ELSE km
      [] key \in {"l", "right"} ->
           IF km.selectedCol < ColumnDone
           THEN [km EXCEPT !.selectedCol = km.selectedCol + 1, !.selectedRow = 0]
           ELSE km
      [] key \in {"j", "down"} ->
           IF km.selectedRow < Len(km.columns[km.selectedCol]) - 1
           THEN [km EXCEPT !.selectedRow = km.selectedRow + 1]
           ELSE km
      [] key \in {"k", "up"} ->
           IF km.selectedRow > 0 THEN [km EXCEPT !.selectedRow = km.selectedRow - 1] ELSE km
      [] key = "enter" ->
           IF getSelectedCard(km) # 0
           THEN [km EXCEPT !.showPopup = TRUE,
                           !.popupCardID = km.heap[getSelectedCard(km)].ID,
                           !.popupScroll = 0]
           ELSE km
      [] key = "tab" -> cycleActiveCard(km)
      [] key = " " -> [km EXCEPT !.paused = ~km.paused]
      [] key \in {"d", "D"} ->
           IF getSelectedCard(km) # 0 /\ km.heap[getSelectedCard(km)].IsUserTask
           THEN completeUserTask(km, km.heap[getSelectedCard(km)].ID)
           ELSE km
      [] OTHER -> km

\* KanbanModel.handlePopupKey; the popup's scroll offset is not bounded by
\* the code, the model stops it at the number of events
handlePopupKey(km, key) ==
    CASE key \in {"esc", "q"} -> [km EXCEPT !.showPopup = FALSE]
      [] key \in {"j", "down"} ->
           IF km.popupScroll < MaxBoardEvents
           THEN [km EXCEPT !.popupScroll = km.popupScroll + 1]
           ELSE km
      [] key \in {"k", "up"} ->
           IF km.popupScroll > 0 THEN [km EXCEPT !.popupScroll = km.popupScroll - 1] ELSE km
      [] OTHER -> km

\* KanbanModel.handleDebugLogKey, without the scroll offset of the log
handleDebugLogKey(km, key) ==
    CASE key \in {"esc", "q", "backtick", "~"} -> [km EXCEPT !.showDebugLog = FALSE]
      [] OTHER -> km

\* KanbanModel.Update, case tea.KeyMsg
UpdateKey(km, key) ==
    IF km.showPopup THEN handlePopupKey(km, key)
    ELSE IF km.showHelp THEN [km EXCEPT !.showHelp = FALSE]
    ELSE IF km.showDebugLog THEN handleDebugLogKey(km, key)
    ELSE handleKey(km, key)

(***************************************************************************)
(* The Bubble Tea program: commands run in goroutines of their own and     *)
(* hand their message to Update, which runs one message at a time.         *)
(***************************************************************************)
\* a second listener is issued with every processed event
rearm_twice(n) ==
    n + 2

\* Update, case TeamEventMsg: cmds = append(cmds, m.listenForEvents())
rearm(n) ==
    n + 1

\* listenForEvents: event, ok := <-m.events, with an event in the channel
listenForEvents ==
    /\ tui /\ ~m.quitting
    /\ listening > 0
    /\ Events # <<>>
    /\ msgs' = Append(msgs, Head(Events))
    /\ Events' = Tail(Events)
    /\ listening' = listening - 1
    /\ UNCHANGED <<closed, now, trace, m, lastApplied>>
    /\ UNCHANGED <<envVars, optVars, runVars, workerVars>>

\* listenForEvents on the closed and drained channel: !ok, the command
\* returns nil and nothing listens any more
listenForEvents_closed ==
    /\ tui /\ ~m.quitting
    /\ listening > 0
    /\ Events = <<>> /\ closed
    /\ listening' = listening - 1
    /\ UNCHANGED <<busVars, trace, msgs, m, lastApplied>>
    /\ UNCHANGED <<envVars, optVars, runVars, workerVars>>

\* an event about a task without a card creates the card first
Update_TeamEventMsg_creatingLazily ==
    /\ tui /\ ~m.quitting
    /\ \E k \in 1..Len(msgs) :
          /\ m' = handleTeamEventCopy(
                    IF msgs[k].TaskID # "" /\ ~hasCard(m, msgs[k].TaskID)
                    THEN addCard(m, NewKanbanCard(msgs[k].TaskID, msgs[k].Actor))
                    ELSE m,
                    msgs[k])
          /\ lastApplied' = msgs[k].Timestamp
          /\ msgs' = [j \in 1..(Len(msgs) - 1) |-> IF j < k THEN msgs[j] ELSE msgs[j + 1]]
    /\ listening' = rearm(listening)
    /\ UNCHANGED <<busVars, trace>>
    /\ UNCHANGED <<envVars, optVars, runVars, workerVars>>

\* a progress event makes its card the active card
Update_TeamEventMsg_activating ==
    /\ tui /\ ~m.quitting
    /\ \E k \in 1..Len(msgs) :
          /\ m' = [handleTeamEventCopy(m, msgs[k]) EXCEPT
                     !.activeCardID = IF msgs[k].Type = "TaskProgress"
                                      THEN msgs[k].TaskID ELSE @]
          /\ lastApplied' = msgs[k].Timestamp
          /\ msgs' = [j \in 1..(Len(msgs) - 1) |-> IF j < k THEN msgs[j] ELSE msgs[j + 1]]
    /\ listening' = rearm(listening)
    /\ UNCHANGED <<busVars, trace>>
    /\ UNCHANGED <<envVars, optVars, runVars, workerVars>>

\* an event that arrives while the board is paused is received and discarded
Update_TeamEventMsg_discardingWhilePaused ==
    /\ tui /\ ~m.quitting
    /\ \E k \in 1..Len(msgs) :
          /\ m' = IF m.paused THEN m ELSE handleTeamEventCopy(m, msgs[k])
          /\ lastApplied' = msgs[k].Timestamp
          /\ msgs' = [j \in 1..(Len(msgs) - 1) |-> IF j < k THEN msgs[j] ELSE msgs[j + 1]]
    /\ listening' = rearm(listening)
    /\ UNCHANGED <<busVars, trace>>
    /\ UNCHANGED <<envVars, optVars, runVars, workerVars>>

\* Update(TeamEventMsg): the event is applied, the listener is re-armed
Update_TeamEventMsg ==
    /\ tui /\ ~m.quitting
    /\ \E k \in 1..Len(msgs) :
          /\ m' = handleTeamEventCopy(m, msgs[k])
          /\ lastApplied' = msgs[k].Timestamp
          /\ msgs' = [j \in 1..(Len(msgs) - 1) |-> IF j < k THEN msgs[j] ELSE msgs[j + 1]]
    /\ listening' = rearm(listening)
    /\ UNCHANGED <<busVars, trace>>
    /\ UNCHANGED <<envVars, optVars, runVars, workerVars>>

\* Update(tea.KeyMsg)
Update_KeyMsg(keys) ==
    /\ tui /\ ~m.quitting
    /\ \E key \in keys :
          /\ m' = UpdateKey(m, key)
          /\ m' # m
    /\ UNCHANGED <<busVars, trace, listening, msgs, lastApplied>>
    /\ UNCHANGED <<envVars, optVars, runVars, workerVars>>

\* RunTeamTUI after p.Run has returned: the select on errChan with its
\* default case.  The goroutine sends the result of Run on errChan and then
\* closes Events: errChan holds the result once Events is closed, may hold
\* it or not when Run has returned and Events is still open, and is empty
\* while Run is at work.  An error of p.Run itself is left out.
RunTeamTUI_return ==
    /\ tui /\ m.quitting
    /\ tuiErr = "running"
    /\ \E sent \in (IF closed THEN {TRUE} ELSE IF pc = "returned" THEN BOOLEAN ELSE {FALSE}) :
          tuiErr' = IF sent /\ runResult = "err" THEN "team error" ELSE "nil"
    /\ UNCHANGED <<envVars, opts, tui, cm, required, stream>>
    /\ UNCHANGED <<runVars, workerVars, busVars, trace, tuiVars>>

\* the channel is closed while Run is still at work
RunTeamTUI_close_early ==
    /\ tui
    /\ ~closed
    /\ closed' = TRUE
    /\ UNCHANGED <<Events, now, trace, tuiVars>>
    /\ UNCHANGED <<envVars, optVars, runVars, workerVars>>

\* RunTeamTUI's goroutine: errChan <- runner.Run(...); close(runner.Events)
RunTeamTUI_close ==
    /\ tui
    /\ pc = "returned"
    /\ ~closed
    /\ closed' = TRUE
    /\ UNCHANGED <<Events, now, trace, tuiVars>>
    /\ UNCHANGED <<envVars, optVars, runVars, workerVars>>

Tui ==
    \/ listenForEvents
    \/ listenForEvents_closed
    \/ Update_TeamEventMsg
    \/ RunTeamTUI_close

(***************************************************************************)
(* Checkpoints (checkpoint.go).  A text is the sequence of its characters  *)
(* elsewhere; checkpoint types, levels and notes are compared whole and    *)
(* are strings.                                                            *)
(***************************************************************************)
CheckpointPlanApproval == "plan_approval"

CheckpointMilestone == "milestone"

CheckpointReview == "review"

CheckpointDelivery == "delivery"

CheckpointTypes ==
    {CheckpointPlanApproval, CheckpointMilestone, CheckpointReview, CheckpointDelivery}

\* the levels of team.go and the zero value of the type
CheckpointLevels == {"all", "major", "none", ""}

\* NewCheckpoint: the ID and CreatedAt come from the clock
NewCheckpoint(checkpointType, phase) ==
    [ID |-> now, Type |-> checkpointType, Phase |-> phase, CreatedAt |-> now,
     Approved |-> FALSE, ApprovedAt |-> 0, Notes |-> ""]

\* Checkpoint.Approve
Approve(c, notes) ==
    [c EXCEPT !.Approved = TRUE, !.ApprovedAt = now, !.Notes = notes]

\* Checkpoint.Reject
Reject(c, notes) ==
    [c EXCEPT !.Approved = FALSE, !.Notes = notes]

NewCheckpointManager(level) ==
    [checkpoints |-> <<>>, level |-> level]

NoAnswer ==
    [Type |-> "", ok |-> FALSE]

\* at level major every checkpoint type needs approval
RequiresApproval_majorGatesAll(level, checkpointType) ==
    CASE level = "none" -> FALSE
      [] level = "major" -> TRUE
      [] level = "all" -> TRUE
      [] OTHER -> TRUE

\* CheckpointManager.RequiresApproval: the switch on m.level
RequiresApproval(level, checkpointType) ==
    CASE level = "none" -> FALSE
      [] level = "major" -> checkpointType = CheckpointPlanApproval
                            \/ checkpointType = CheckpointDelivery
      [] level = "all" -> TRUE
      [] OTHER -> TRUE

\* CheckpointManager.GetPending: copies of the checkpoints not approved
GetPending(manager) ==
    SelectSeq(manager.checkpoints, LAMBDA c : ~c.Approved)

\* m.Add(NewCheckpoint(type, description, phase))
CM_Add ==
    /\ Len(cm.checkpoints) < MaxCheckpoints
    /\ \E t \in CheckpointTypes :
          cm' = [cm EXCEPT !.checkpoints = Append(@, NewCheckpoint(t, session.Phase))]
    /\ now' = now + 1
    /\ UNCHANGED <<envVars, stream, tuiErr, opts, tui, required, runVars, workerVars, Events, closed, trace,
                   tuiVars>>

\* m.RequiresApproval(type), the answer kept by the caller
CM_RequiresApproval ==
    /\ \E t \in CheckpointTypes :
          required' = [Type |-> t, ok |-> RequiresApproval(cm.level, t)]
    /\ UNCHANGED <<envVars, stream, tuiErr, opts, tui, cm, runVars, workerVars, busVars, trace, tuiVars>>

\* m.GetAll()[i].Approve(notes): GetAll returns the manager's own slice
CM_Approve ==
    /\ \E i \in DOMAIN cm.checkpoints :
          cm' = [cm EXCEPT !.checkpoints[i] = Approve(@, "approved")]
    /\ UNCHANGED <<envVars, stream, tuiErr, opts, tui, required, runVars, workerVars, busVars, trace, tuiVars>>

\* m.GetAll()[i].Reject(notes)
CM_Reject ==
    /\ \E i \in DOMAIN cm.checkpoints :
          cm' = [cm EXCEPT !.checkpoints[i] = Reject(@, "rejected")]
    /\ UNCHANGED <<envVars, stream, tuiErr, opts, tui, required, runVars, workerVars, busVars, trace, tuiVars>>

(***************************************************************************)
(* The orchestration runs: team.Run started from the console command       *)
(* (cmd/team, no reader of Events) or by RunTeamTUI (the board reads       *)
(* Events, no checkpoints, no output directory).                           *)
(***************************************************************************)
Rosters == {<<"claude">>, <<"gpt", "claude">>}

RunOptions ==
    [Task : {TaskBuildAPI}, PM : {"", "gpt"}, Mode : {""} \cup WorkModes,
     Members : Rosters, CheckpointLevel : {"all", "none"}, OutputDir : {"", "out"}]

\* cmd/team runTeam and tui.RunTeamTUI: the options a run is started with
Started(o, t) ==
    IF t THEN o.CheckpointLevel = "none" /\ o.OutputDir = "" /\ Len(o.Members) = 1
    ELSE o.OutputDir # ""

NoStream ==
    [provider |-> "", lines |-> <<>>, readErr |-> FALSE, cancelled |-> FALSE,
     ch |-> <<>>, closed |-> TRUE, got |-> <<>>]

InitSession(o, t, at) ==
    /\ opts = o
    /\ tui = t
    /\ pc = at
    /\ session = SessionInit(o)
    /\ runResult = "none"
    /\ loc = LocInit
    /\ wpc = WorkersInit(o)
    /\ wn = [i \in 1..Len(o.Members) |-> 0]
    /\ results = [i \in 1..Len(o.Members) |-> <<>>]
    /\ errors = [i \in 1..Len(o.Members) |-> FALSE]
    /\ Events = <<>>
    /\ closed = FALSE
    /\ now = 1
    /\ trace = <<>>
    /\ listening = IF t THEN 1 ELSE 0
    /\ msgs = <<>>
    /\ m = NewKanbanModel
    /\ lastApplied = 0
    /\ cm = NewCheckpointManager(o.CheckpointLevel)
    /\ required = NoAnswer
    /\ tuiErr = "running"

InitRun(o, t, at) ==
    /\ InitSession(o, t, at)
    /\ stream = NoStream

Init ==
    /\ \E o \in RunOptions, t \in BOOLEAN : Started(o, t) /\ InitRun(o, t, "start")
    /\ streamLimit \in 0..MaxChunks
    /\ stepLimit = MaxSteps
    /\ faultsLeft = MaxFaults

Next ==
    \/ RunStep
    \/ SequentialModes
    \/ DivideConquer
    \/ Tui

Spec ==
    Init /\ [][Next]_vars

(***************************************************************************)
(* A board-driven divide-and-conquer run whose one member streams enough   *)
(* chunks to fill the event bus while the board is behind.                 *)
(***************************************************************************)
BusOptions ==
    [Task |-> TaskBuildAPI, PM |-> "", Mode |-> "divide_conquer", Members |-> <<"claude">>,
     CheckpointLevel |-> "none", OutputDir |-> ""]

InitBus ==
    /\ InitRun(BusOptions, TRUE, "start")
    /\ streamLimit = BusChunks
    /\ stepLimit = MaxSteps
    /\ faultsLeft = 0

\* no provider and no file operation fails in these runs
NextBus ==
    \/ RunStep
    \/ DC_Divide
    \/ DC_Spawn
    \/ \E idx \in DOMAIN wpc : Worker_Stream(idx) \/ Worker_Chunk(idx) \/ Worker_Complete(idx)
    \/ DC_Merge
    \/ Tui

SpecBus ==
    InitBus /\ [][NextBus]_vars

(***************************************************************************)
(* Console runs with the mode forced to round robin, rosters of up to      *)
(* three members and each checkpoint level of the --checkpoints flag.      *)
(***************************************************************************)
RoundRobinRosters == {<<"claude">>, <<"gpt", "claude">>, <<"gemini", "claude", "gpt">>}

RoundRobinOptions ==
    [Task : {TaskBuildAPI}, PM : {"", "claude"}, Mode : {"round_robin"},
     Members : RoundRobinRosters, CheckpointLevel : {"all", "major", "none"}, OutputDir : {"out"}]

InitRoundRobin ==
    /\ \E o \in RoundRobinOptions : InitRun(o, FALSE, "start")
    /\ streamLimit = 0
    /\ stepLimit = MaxSteps
    /\ faultsLeft = MaxFaults

NextRoundRobin ==
    \/ RunStep
    \/ RoundRobin_Member
    \/ RoundRobin_Return

SpecRoundRobin ==
    InitRoundRobin /\ [][NextRoundRobin]_vars

(***************************************************************************)
(* PM selection alone: runs with no forced PM, over task texts that give   *)
(* a single best candidate, tied candidates and no match at all, and over  *)
(* every roster of up to MaxRoster distinct members, in every order, one   *)
(* of them ("mistral") not a known candidate.                              *)
(***************************************************************************)
SelectTasks == {TaskBuildAPI, TaskQuickFix, TaskHello, TaskFixPlan, TaskFastFix}

SelectMembers == {"claude", "gpt", "gemini", "groq", "mistral"}

SelectRosters ==
    {r \in UNION {[1..n -> SelectMembers] : n \in 0..MaxRoster} :
        \A i, j \in DOMAIN r : r[i] = r[j] => i = j}

SelectOptions ==
    [Task : SelectTasks, PM : {""}, Mode : {""}, Members : SelectRosters,
     CheckpointLevel : {"all"}, OutputDir : {"out"}]

InitSelect ==
    /\ \E o \in SelectOptions : InitRun(o, FALSE, "start")
    /\ streamLimit = 0
    /\ stepLimit = MaxSteps
    /\ faultsLeft = 0

NextSelect ==
    \/ Run_Start
    \/ Run_selectPM
    \/ Run_EnterPlanning

SpecSelect ==
    InitSelect /\ [][NextSelect]_vars

(***************************************************************************)
(* A checkpoint manager of any level under any sequence of calls of its    *)
(* methods, before the run it belongs to has started.                      *)
(***************************************************************************)
CheckpointOptions ==
    [Task : {TaskBuildAPI}, PM : {""}, Mode : {""}, Members : {<<"claude">>},
     CheckpointLevel : CheckpointLevels, OutputDir : {"out"}]

InitCheckpoint ==
    /\ \E o \in CheckpointOptions : InitRun(o, FALSE, "start")
    /\ streamLimit = 0
    /\ stepLimit = MaxSteps
    /\ faultsLeft = 0

NextCheckpoint ==
    \/ CM_Add
    \/ CM_RequiresApproval
    \/ CM_Approve
    \/ CM_Reject

SpecCheckpoint ==
    InitCheckpoint /\ [][NextCheckpoint]_vars

(***************************************************************************)
(* The board under any sequence of events: the channel is fed by a         *)
(* producer that may send an event of any type about any task.             *)
(***************************************************************************)
BoardTasks == {"step_1", "step_2"}

BoardEventTypes ==
    {"TaskCreated", "UserTaskCreated", "TaskStarted", "TaskCompleted",
     "TaskMovedToReview", "PMApproved"}

BoardKeys == {"d"}

\* the dependencies the producer declares for a task
BoardDependsOn(id) ==
    IF id = "step_2" THEN <<"step_1">> ELSE <<>>

BoardEvent(type, id) ==
    NewTaskEvent(type, id, "pm",
                 IF type = "TaskCreated" THEN TaskCreatedData("gpt", FALSE, BoardDependsOn(id))
                 ELSE IF type = "UserTaskCreated"
                      THEN TaskCreatedData("user", TRUE, BoardDependsOn(id))
                 ELSE NoData)

\* a send on Runner.Events by the holder of the channel
Producer_emit ==
    /\ pc = "external"
    /\ now <= MaxBoardEvents
    /\ \E type \in BoardEventTypes, id \in BoardTasks : send(BoardEvent(type, id))
    /\ UNCHANGED <<trace, tuiVars>>
    /\ UNCHANGED <<envVars, optVars, runVars, workerVars>>

InitBoard ==
    /\ InitRun(BusOptions, TRUE, "external")
    /\ streamLimit = 0
    /\ stepLimit = 0
    /\ faultsLeft = 0

NextBoard ==
    \/ Producer_emit
    \/ listenForEvents
    \/ Update_TeamEventMsg
    \/ Update_KeyMsg(BoardKeys)

SpecBoard ==
    InitBoard /\ [][NextBoard]_vars

(***************************************************************************)
(* RunTeamTUI with a user at the keyboard: a board-driven run, with         *)
(* failing calls, during which the user may quit.  After the quit the      *)
(* Bubble Tea program is over: no message is delivered to Update any more, *)
(* and the goroutine of Run goes on until the process ends.                *)
(***************************************************************************)
TuiModes == {"round_robin", "divide_conquer"}

TuiKeys == {"q", "ctrl+c"}

TuiOptions ==
    [Task : {TaskBuildAPI}, PM : {""}, Mode : TuiModes, Members : {<<"claude">>},
     CheckpointLevel : {"none"}, OutputDir : {""}]

InitTui ==
    /\ \E o \in TuiOptions : InitRun(o, TRUE, "start")
    /\ streamLimit \in 0..MaxChunks
    /\ stepLimit = MaxSteps
    /\ faultsLeft = MaxTuiFaults

NextTui ==
    \/ RunStep
    \/ RoundRobin_Member
    \/ RoundRobin_Return
    \/ DivideConquer
    \/ Tui
    \/ Update_KeyMsg(TuiKeys)
    \/ RunTeamTUI_return

SpecTui ==
    InitTui /\ [][NextTui]_vars

(***************************************************************************)
(* Console runs in divide-and-conquer mode with two and three concurrent   *)
(* workers, whose streams may fail to start or carry an error; the streams *)
(* of three workers are empty ones.                                        *)
(***************************************************************************)
MaxDivideFaults == 1

DivideRosters == {<<"gpt", "claude">>, <<"gemini", "claude", "gpt">>}

DivideOptions ==
    [Task : {TaskBuildAPI}, PM : {"claude"}, Mode : {"divide_conquer"},
     Members : DivideRosters, CheckpointLevel : {"none"}, OutputDir : {""}]

InitDivide ==
    /\ \E o \in DivideOptions :
          /\ InitRun(o, FALSE, "start")
          /\ streamLimit \in (IF Len(o.Members) = 2 THEN 0..MaxChunks ELSE {0})
    /\ stepLimit = MaxSteps
    /\ faultsLeft = MaxDivideFaults

NextDivide ==
    \/ RunStep
    \/ DC_Divide
    \/ DC_Spawn
    \/ Worker
    \/ DC_Merge

SpecDivide ==
    InitDivide /\ [][NextDivide]_vars

(***************************************************************************)
(* Provider streams (part_009 ReadSSEStream, cli.go Stream, part_010       *)
(* Stream).  The goroutine of a stream scans the lines of its source and   *)
(* sends chunks on the channel it closes when it returns; the caller       *)
(* ranges over the channel.  A line is named by what the scan makes of it. *)
(***************************************************************************)
MaxLines == 2

SSEChanCap == 100
CLIChanCap == 10
OllamaChanCap == 100

StreamProviders == {"sse", "cli", "ollama"}

ContentChunk == [Content |-> "text", Done |-> FALSE, Error |-> FALSE]
DoneChunk == [Content |-> "", Done |-> TRUE, Error |-> FALSE]
ErrorChunk == [Content |-> "", Done |-> FALSE, Error |-> TRUE]

\* an SSE line: empty, a comment, a field other than data, the end marker,
\* or a data line by what parseFunc returns for it
SSELines ==
    {"", ": keep-alive", "event: message", "data: [DONE]", "data: content",
     "data: content, done", "data: done", "data: no choices", "data: malformed"}

\* parseFunc: (content, done, err)
parseFunc(line) ==
    CASE line = "data: content" -> [content |-> "text", done |-> FALSE, err |-> FALSE]
      [] line = "data: content, done" -> [content |-> "text", done |-> TRUE, err |-> FALSE]
      [] line = "data: done" -> [content |-> "", done |-> TRUE, err |-> FALSE]
      [] line = "data: no choices" -> [content |-> "", done |-> FALSE, err |-> FALSE]
      [] OTHER -> [content |-> "", done |-> FALSE, err |-> TRUE]

\* a line of Ollama's newline-delimited JSON, by what it unmarshals to
OllamaLines == {"", "content", "content, done", "done", "no content", "malformed"}

\* a line of the standard output of a CLI
CLILines == {"", "text"}

LinesOf(provider) ==
    CASE provider = "sse" -> SSELines
      [] provider = "cli" -> CLILines
      [] provider = "ollama" -> OllamaLines

ChanCap(provider) ==
    CASE provider = "sse" -> SSEChanCap
      [] provider = "cli" -> CLIChanCap
      [] provider = "ollama" -> OllamaChanCap

LineSeqs(S) ==
    UNION {[1..n -> S] : n \in 0..MaxLines}

\* what one pass of the scan loop of ReadSSEStream sends for a line, and
\* whether it returns
ReadSSEStream_line(line) ==
    IF line \in {"", ": keep-alive", "event: message"}
    THEN [send |-> <<>>, ret |-> FALSE]
    ELSE IF line = "data: [DONE]"
    THEN [send |-> <<DoneChunk>>, ret |-> TRUE]
    ELSE LET r == parseFunc(line)
         IN  IF r.err THEN [send |-> <<ErrorChunk>>, ret |-> TRUE]
             ELSE [send |-> (IF r.content # "" THEN <<ContentChunk>> ELSE <<>>) \o
                            (IF r.done THEN <<DoneChunk>> ELSE <<>>),
                   ret |-> r.done]

\* the same for the goroutine of OllamaProvider.Stream
OllamaStream_line(line) ==
    IF line = "" THEN [send |-> <<>>, ret |-> FALSE]
    ELSE IF line = "malformed" THEN [send |-> <<ErrorChunk>>, ret |-> TRUE]
    ELSE [send |-> (IF line \in {"content", "content, done"} THEN <<ContentChunk>> ELSE <<>>) \o
                   (IF line \in {"content, done", "done"} THEN <<DoneChunk>> ELSE <<>>),
          ret |-> line \in {"content, done", "done"}]

\* one pass of a scan loop: the chunks of the line are sent and the goroutine
\* goes on or returns; at the end of the input the error of the scanner, if
\* any, is sent; the deferred close runs on every return
Stream_pass(step) ==
    IF stream.lines = <<>>
    THEN /\ Len(stream.ch) + (IF stream.readErr THEN 1 ELSE 0) <= ChanCap(stream.provider)
         /\ stream' = [stream EXCEPT
                         !.ch = IF stream.readErr THEN Append(@, ErrorChunk) ELSE @,
                         !.closed = TRUE]
    ELSE /\ Len(stream.ch) + Len(step.send) <= ChanCap(stream.provider)
         /\ stream' = [stream EXCEPT !.lines = Tail(@),
                                     !.ch = @ \o step.send,
                                     !.closed = step.ret]

ReadSSEStream ==
    /\ stream.provider = "sse"
    /\ ~stream.closed
    /\ Stream_pass(IF stream.lines = <<>> THEN [send |-> <<>>, ret |-> TRUE]
                   ELSE ReadSSEStream_line(Head(stream.lines)))
    /\ UNCHANGED <<streamLimit, stepLimit, faultsLeft, opts, tui, cm, required, tuiErr>>
    /\ UNCHANGED <<runVars, workerVars, busVars, tuiVars, trace>>

OllamaStream ==
    /\ stream.provider = "ollama"
    /\ ~stream.closed
    /\ Stream_pass(IF stream.lines = <<>> THEN [send |-> <<>>, ret |-> TRUE]
                   ELSE OllamaStream_line(Head(stream.lines)))
    /\ UNCHANGED <<streamLimit, stepLimit, faultsLeft, opts, tui, cm, required, tuiErr>>
    /\ UNCHANGED <<runVars, workerVars, busVars, tuiVars, trace>>

\* the goroutine of CLIProvider.Stream: every line is sent as content, unless
\* the select takes the cancelled context, which kills the process and returns
CLIStream ==
    /\ stream.provider = "cli"
    /\ ~stream.closed
    /\ \/ Stream_pass([send |-> <<ContentChunk>>, ret |-> FALSE])
       \/ /\ stream.lines # <<>>
          /\ stream.cancelled
          /\ stream' = [stream EXCEPT !.closed = TRUE]
    /\ UNCHANGED <<streamLimit, stepLimit, faultsLeft, opts, tui, cm, required, tuiErr>>
    /\ UNCHANGED <<runVars, workerVars, busVars, tuiVars, trace>>

\* the context of the call is cancelled: the select of the CLI goroutine
\* sees it; the body of an HTTP response yields nothing more and its scanner
\* reports the error of the read
Ctx_Cancel ==
    /\ stream.provider # ""
    /\ ~stream.closed
    /\ ~stream.cancelled
    /\ stream' = IF stream.provider = "cli"
                 THEN [stream EXCEPT !.cancelled = TRUE]
                 ELSE [stream EXCEPT !.cancelled = TRUE, !.lines = <<>>, !.readErr = TRUE]
    /\ UNCHANGED <<streamLimit, stepLimit, faultsLeft, opts, tui, cm, required, tuiErr>>
    /\ UNCHANGED <<runVars, workerVars, busVars, tuiVars, trace>>

\* for chunk := range streamCh
Stream_Recv ==
    /\ stream.ch # <<>>
    /\ stream' = [stream EXCEPT !.ch = Tail(@), !.got = Append(@, Head(stream.ch))]
    /\ UNCHANGED <<streamLimit, stepLimit, faultsLeft, opts, tui, cm, required, tuiErr>>
    /\ UNCHANGED <<runVars, workerVars, busVars, tuiVars, trace>>

StreamOptions ==
    [Task : {TaskBuildAPI}, PM : {""}, Mode : {"divide_conquer"}, Members : {<<"claude">>},
     CheckpointLevel : {"none"}, OutputDir : {""}]

InitStream ==
    /\ \E o \in StreamOptions : InitSession(o, FALSE, "external")
    /\ streamLimit = 0
    /\ stepLimit = MaxSteps
    /\ faultsLeft = 0
    /\ \E p \in StreamProviders : \E ls \in LineSeqs(LinesOf(p)) : \E e \in BOOLEAN :
          stream = [provider |-> p, lines |-> ls, readErr |-> e, cancelled |-> FALSE,
                    ch |-> <<>>, closed |-> FALSE, got |-> <<>>]

NextStream ==
    \/ ReadSSEStream
    \/ OllamaStream
    \/ CLIStream
    \/ Ctx_Cancel
    \/ Stream_Recv

SpecStream ==
    InitStream /\ [][NextStream]_vars

(***************************************************************************)
(* Console runs in pair programming mode with one to three members, the PM *)
(* chosen by the caller or by selectPM, and up to MaxFaults failing calls. *)
(***************************************************************************)
PairRosters == {<<"claude">>, <<"gpt", "claude">>, <<"claude", "gpt", "gemini">>}

PairOptions ==
    [Task : {TaskBuildAPI}, PM : {"", "claude"}, Mode : {"pair_programming"},
     Members : PairRosters, CheckpointLevel : {"none"}, OutputDir : {"out"}]

InitPair ==
    /\ \E o \in PairOptions : InitRun(o, FALSE, "start")
    /\ streamLimit = 0
    /\ stepLimit = MaxSteps
    /\ faultsLeft = MaxFaults

NextPair ==
    \/ RunStep
    \/ Pair_Driver
    \/ Pair_Navigator

SpecPair ==
    InitPair /\ [][NextPair]_vars

(***************************************************************************)
(* Console runs up to the start of the mode executor: every forced mode    *)
(* and no forced mode, against every reply of the PM.                      *)
(***************************************************************************)
PlanOptions ==
    [Task : {TaskBuildAPI}, PM : {""}, Mode : {""} \cup WorkModes, Members : Rosters,
     CheckpointLevel : {"none"}, OutputDir : {"out"}]

InitPlan ==
    /\ \E o \in PlanOptions : InitRun(o, FALSE, "start")
    /\ streamLimit = 0
    /\ stepLimit = MaxSteps
    /\ faultsLeft = 0

NextPlan ==
    \/ Run_Start
    \/ Run_selectPM
    \/ Run_EnterPlanning
    \/ Run_createPlan
    \/ Run_emitTaskCreated
    \/ Run_EnterExecution
    \/ Execute

SpecPlan ==
    InitPlan /\ [][NextPlan]_vars

(***************************************************************************)
(* The board under events of every type that concerns a card, about tasks  *)
(* with and without a card, with the payload of the event type and with a  *)
(* payload of another type.                                                *)
(***************************************************************************)
CardEventTypes ==
    {"TaskCreated", "TaskStarted", "TaskProgress", "TaskCompleted", "TaskMovedToReview",
     "PMApproved", "Error"}

\* the event types whose payload the board asserts the type of
PayloadTypes ==
    {"TaskCreated", "UserTaskCreated", "TaskProgress", "Error"}

\* the payload an emitter of the code gives an event about task id; the
\* fragments of the second task are significant ones
CardPayload(type, id) ==
    CASE type = "TaskCreated" -> TaskCreatedData("gpt", FALSE, <<>>)
      [] type = "TaskProgress" ->
           TaskProgressData(IF id = "step_2" THEN LongFragment ELSE "c", HalfDone)
      [] type = "Error" -> ErrorData(id, "failed")
      [] OTHER -> NoData

CardEvent(type, id, typed) ==
    NewTaskEvent(type, id, "gpt",
                 IF typed THEN CardPayload(type, id) ELSE PMSelectedData("gpt"))

\* a send on Runner.Events by the holder of the channel
Producer_emitCardEvent ==
    /\ pc = "external"
    /\ now <= MaxCardEvents
    /\ \E type \in CardEventTypes, id \in BoardTasks, typed \in BOOLEAN :
          /\ ~typed => (type \in PayloadTypes /\ id = "step_1")
          /\ send(CardEvent(type, id, typed))
    /\ UNCHANGED <<trace, tuiVars>>
    /\ UNCHANGED <<envVars, optVars, runVars, workerVars>>

NextCards ==
    \/ Producer_emitCardEvent
    \/ listenForEvents
    \/ Update_TeamEventMsg

SpecCards ==
    InitBoard /\ [][NextCards]_vars

(***************************************************************************)
(* The board under card events while the user toggles the pause and moves  *)
(* the selection and the focus of the active panel.                        *)
(***************************************************************************)
MaxPauseEvents == 3

PauseKeys == {" ", "l", "j", "tab"}

Producer_emitWhilePausing ==
    /\ now <= MaxPauseEvents
    /\ Producer_emitCardEvent

NextPause ==
    \/ Producer_emitWhilePausing
    \/ listenForEvents
    \/ Update_TeamEventMsg
    \/ Update_KeyMsg(PauseKeys)

SpecPause ==
    InitBoard /\ [][NextPause]_vars

(***************************************************************************)
(* Properties.                                                             *)
(***************************************************************************)
Last(t) == t[Len(t)]

\* the steps of Run, of the mode executors and of the workers
ProducerStep ==
    RunStep \/ SequentialModes \/ DivideConquer

IsEmit(x, type) ==
    x.k = "emit" /\ x.ev.Type = type

\* the indices of the events of a type that Run itself (goroutine 0) emitted
EmittedByRun(type) ==
    {i \in DOMAIN trace : IsEmit(trace[i], type) /\ trace[i].th = 0}

Dropped ==
    {i \in DOMAIN trace : trace[i].k = "emit" /\ ~trace[i].ok}

\* C1: an emit never blocks the producer: whatever the channel holds, the
\* next step of a run that has not returned can be taken; an emit on a full
\* channel leaves the channel as it is, an emit on a channel with room
\* appends the event.
C1_EmitNeverBlocks ==
    /\ [](pc # "returned" => ENABLED ProducerStep)
    /\ [][now' # now =>
            /\ trace' # trace /\ Last(trace').k = "emit"
            /\ Events' = IF Len(Events) < EventsCap
                         THEN Append(Events, Last(trace').ev)
                         ELSE Events]_vars

\* C1: the channel is full and an event has been dropped
C1_Witness ==
    /\ Len(Events) = EventsCap
    /\ Dropped # {}

\* C2: only progress events are dropped: every TaskCompleted, Error and
\* SessionComplete event that is emitted enters the channel.
C2_OnlyProgressDropped ==
    \A i \in Dropped : trace[i].ev.Type = "TaskProgress"

\* C3: the phase only moves to its immediate successor, and not at all
\* once Run has returned an error.
C3_PhaseForwardOnly ==
    [][/\ session.Phase' # session.Phase => session.Phase' = session.Phase + 1
       /\ runResult = "err" => session.Phase' = session.Phase]_vars

\* C3: Run returned an error in the Review phase, after three transitions
C3_Witness ==
    /\ runResult = "err"
    /\ session.Phase = PhaseReview

\* the step that changes the phase emits PhaseChanged(old, new) as its last
\* effect: everything the new phase does comes after it
Announced ==
    /\ trace' # trace
    /\ IsEmit(Last(trace'), "PhaseChanged")
    /\ Last(trace').ev.Data.OldPhase = session.Phase
    /\ Last(trace').ev.Data.NewPhase = session.Phase'

FatalPCs ==
    {"selectPM", "createPlan", "execute", "pair_driver", "pair_navigator", "consult_init",
     "consult_members", "round_robin", "ff_members", "ff_final", "dc_divide", "dc_spawn"}

\* C5: when PM selection, plan generation or the mode executor fails, Run
\* emits an Error event and returns an error; after that there is no phase
\* transition, no event and no model invocation.
C5_FatalErrorStopsRun ==
    [][/\ (runResult' = "err" /\ runResult # "err" /\ pc \in FatalPCs) =>
             /\ IsEmit(Last(trace'), "Error")
             /\ Last(trace').th = 0
       /\ runResult = "err" =>
             /\ trace' = trace
             /\ session' = session
             /\ runResult' = "err"
             /\ pc' = "returned"]_vars

\* C5: the mode executor failed in the Execution phase
C5_Witness ==
    /\ runResult = "err"
    /\ session.Phase = PhaseExecution
    /\ IsEmit(Last(trace), "Error")
    /\ Last(trace).ev.Data.Message = "Execution failed"

\* C6: a run that returned an error has emitted exactly one Error event of
\* its own, whichever step failed.
C6_OneErrorEventPerAbort ==
    runResult = "err" => Cardinality(EmittedByRun("Error")) = 1

\* C7: the board applies the events in the order the channel accepted them:
\* at most one receive is outstanding or delivered and not yet applied, the
\* channel holds the accepted events oldest first, and every event that is
\* still to be applied was accepted after the last one applied.
C7_AppliedInBusOrder ==
    /\ listening + Len(msgs) <= 1
    /\ \A i \in DOMAIN msgs : msgs[i].Timestamp > lastApplied
    /\ \A i \in DOMAIN Events :
          /\ Events[i].Timestamp > lastApplied
          /\ \A j \in DOMAIN msgs : msgs[j].Timestamp < Events[i].Timestamp
          /\ i > 1 => Events[i - 1].Timestamp < Events[i].Timestamp

\* C7: two events about the same task, the first applied and the listener
\* re-armed, the second still in the channel
C7_Witness ==
    /\ lastApplied > 0
    /\ listening = 1
    /\ \E i \in DOMAIN Events : Events[i].TaskID = "step_1"
    /\ hasCard(m, "step_1")

\* C8: no step of the board moves a card to an earlier column.
C8_ColumnNeverRegresses ==
    [][\A p \in DOMAIN m.heap : m'.heap[p].Column >= m.heap[p].Column]_vars

\* the places of a card object in the column lists
Places(km, p) ==
    UNION {{<<c, i>> : i \in {j \in 1..Len(km.columns[c]) : km.columns[c][j] = p}} :
             c \in Columns}

\* C9: every card of the card map is in exactly one column list, once, the
\* list of its Column field, and every entry of a column list is a card of
\* the card map.
C9_CardInExactlyOneColumn ==
    /\ \A id \in DOMAIN m.cards :
          Places(m, m.cards[id]) \in {{<<m.heap[m.cards[id]].Column, i>>} :
                                        i \in 1..Len(m.columns[m.heap[m.cards[id]].Column])}
    /\ \A c \in Columns : \A i \in 1..Len(m.columns[c]) :
          \E id \in DOMAIN m.cards : m.cards[id] = m.columns[c][i]

\* the dependencies of a card that have a card outside the Done column
Unsatisfied(km, c) ==
    {i \in DOMAIN c.DependsOn :
        /\ hasCard(km, c.DependsOn[i])
        /\ km.heap[km.cards[c.DependsOn[i]]].Column # ColumnDone}

\* C10: a card reads blocked exactly when one of its dependencies is a card
\* that is not in the Done column.
C10_BlockedIffUnsatisfied ==
    \A id \in DOMAIN m.cards :
        IsBlocked(m.heap[m.cards[id]]) <=> (Unsatisfied(m, m.heap[m.cards[id]]) # {})

\* the step of executeDivideConquer that follows wg.Wait(): the merge call
MergeStep ==
    pc = "dc_spawn" /\ pc' # "dc_spawn"

\* the invocations Run's goroutine made in the Execution phase
ExecInvokes ==
    SelectSeq(trace, LAMBDA x : x.k = "invoke" /\ x.ph = PhaseExecution)

CompletedEmits ==
    {i \in DOMAIN trace : IsEmit(trace[i], "TaskCompleted")}

\* C11: the merge call is made only when every worker has returned; when no
\* worker failed, exactly N TaskCompleted events, one per subtask ID, were
\* emitted before it; divide-and-conquer makes one merge call (its second
\* invocation, after the divide call) and no invocation after it.
C11_MergeAfterJoin ==
    /\ [](session.Mode = "divide_conquer" => Len(ExecInvokes) <= 2)
    /\ [][MergeStep =>
            /\ \A idx \in DOMAIN wpc : wpc[idx] = "returned"
            /\ Len(ExecInvokes) = 1
            /\ (\A idx \in DOMAIN errors : ~errors[idx]) =>
                  /\ Cardinality(CompletedEmits) = N
                  /\ {trace[i].ev.TaskID : i \in CompletedEmits} =
                       {SubtaskIDs[k] : k \in 1..N}]_vars

\* C11: two workers, no failure, the merge call made after both
\* TaskCompleted events
C11_Witness ==
    /\ session.Mode = "divide_conquer"
    /\ pc = "review"
    /\ N = 2
    /\ \A idx \in DOMAIN errors : ~errors[idx]
    /\ Cardinality(CompletedEmits) = 2
    /\ Len(ExecInvokes) = 2

\* the results of the workers from k on that did not fail, in roster order
RECURSIVE successfulResults(_)
successfulResults(k) ==
    IF k > N THEN <<>>
    ELSE (IF errors[k] THEN <<>> ELSE results[k]) \o successfulResults(k + 1)

\* C12: a worker that has not returned can always take its next step,
\* whatever happened to its siblings; at the merge call every worker that
\* did not fail has a result, every failed worker has none, and the merge
\* prompt holds exactly the results of the workers that did not fail.
C12_FailedWorkerLeavesSiblings ==
    /\ [](\A idx \in DOMAIN wpc :
            wpc[idx] \in {"stream", "chunks"} =>
               ENABLED (Worker_Stream(idx) \/ Worker_Chunk(idx) \/ Worker_Complete(idx)))
    /\ [][MergeStep =>
            /\ \A idx \in DOMAIN wpc :
                  /\ wpc[idx] = "returned"
                  /\ errors[idx] <=> results[idx] = <<>>
            /\ trace'[Len(trace) + 1].k = "invoke"
            /\ trace'[Len(trace) + 1].arg = successfulResults(1)]_vars

\* C12: the first of two workers failed, the merge call was made with the
\* result of the second alone
C12_Witness ==
    /\ session.Mode = "divide_conquer"
    /\ pc = "review"
    /\ N = 2
    /\ errors[1] /\ ~errors[2]
    /\ Len(ExecInvokes) = 2
    /\ Len(ExecInvokes[2].arg) = 1
    /\ ExecInvokes[2].arg[1].by = session.Members[2]

\* a step of a mode executor in which a model invocation failed
FailedInvocation ==
    /\ session.Phase = PhaseExecution
    /\ Len(trace') > Len(trace)
    /\ trace'[Len(trace) + 1].k = "invoke"
    /\ ~trace'[Len(trace) + 1].ok

\* C13: in the mode executors a failed invocation does not make Execute
\* return an error (the mode goes on to its next step), unless it is the
\* PM's merge call of divide-and-conquer.
C13_OnlyMergeFailureIsFatal ==
    [][(FailedInvocation /\ runResult' = "err") => MergeStep]_vars

\* the blocks of the first j invocations of inv that succeeded, block k
\* attributed to its member and its round
RECURSIVE Contributions(_, _)
Contributions(inv, j) ==
    IF j = 0 THEN <<>>
    ELSE Contributions(inv, j - 1) \o
           (IF inv[j].ok
            THEN <<Block("contribution", inv[j].who, ((j - 1) \div N) + 1)>>
            ELSE <<>>)

\* C14: round robin invokes the members in the order round 1: m1..mN,
\* round 2: m1..mN, each prompt holding the contributions of all earlier
\* successful calls; it returns one artifact after exactly 2*N invocations,
\* whose content is the blocks of the successful calls in that order (2*N
\* blocks when no call failed), a failed call contributing no block.
C14_RoundRobinTranscript ==
    session.Mode = "round_robin" =>
       /\ Len(ExecInvokes) <= RoundRobinRounds * N
       /\ \A j \in DOMAIN ExecInvokes :
             /\ ExecInvokes[j].who = session.Members[((j - 1) % N) + 1]
             /\ ExecInvokes[j].arg = Contributions(ExecInvokes, j - 1)
       /\ session.Artifacts # <<>> =>
             /\ Len(session.Artifacts) = 1
             /\ Len(ExecInvokes) = RoundRobinRounds * N
             /\ session.Artifacts[1].Content = Contributions(ExecInvokes, Len(ExecInvokes))
             /\ (\A j \in DOMAIN ExecInvokes : ExecInvokes[j].ok) =>
                   Len(session.Artifacts[1].Content) = RoundRobinRounds * N

\* C14: three members, no failed call, an artifact of six blocks
C14_Witness ==
    /\ session.Mode = "round_robin"
    /\ N = 3
    /\ session.Artifacts # <<>>
    /\ \A j \in DOMAIN ExecInvokes : ExecInvokes[j].ok
    /\ Len(session.Artifacts[1].Content) = 6
    /\ session.Artifacts[1].Content[4] = Block("contribution", session.Members[1], 2)

\* the approvals requested once the Execution phase is over, that is for
\* the delivery
DeliveryApprovals ==
    {i \in DOMAIN trace : trace[i].k = "approval" /\ trace[i].ph \in {PhaseReview, PhaseDelivery}}

\* C20: with checkpoint level major or all a run reaches Complete only after
\* a delivery approval was requested and granted; with level none no
\* approval is requested at any point of the run.
C20_DeliveryApprovalGates ==
    /\ (opts.CheckpointLevel \in {"major", "all"} /\ session.Phase = PhaseComplete) =>
          \E i \in DeliveryApprovals : trace[i].ok
    /\ opts.CheckpointLevel = "none" =>
          \A i \in DOMAIN trace : trace[i].k # "approval"

\* Select has returned: Run has stored its result in session.PM
Selected ==
    pc = "planning" /\ opts.PM = ""

\* the known candidates that are members of the roster
Available ==
    {GetPMStrengths[k].AIID : k \in {i \in DOMAIN GetPMStrengths :
                                       InRoster(GetPMStrengths[i].AIID, opts.Members)}}

\* the score of candidate a for the task of the run
ScoreOf(a) ==
    PMScore(ToLower(opts.Task), GetPMStrengths[CHOOSE k \in DOMAIN GetPMStrengths :
                                                  GetPMStrengths[k].AIID = a])

\* the available candidates with the highest score
Top ==
    {a \in Available : \A b \in Available : ScoreOf(b) <= ScoreOf(a)}

\* the member of set S that comes first in the roster
FirstInRoster(S) ==
    opts.Members[CHOOSE i \in DOMAIN opts.Members :
                    /\ opts.Members[i] \in S
                    /\ \A j \in 1..(i - 1) : opts.Members[j] \notin S]

\* C16: when several available candidates reach the same highest score,
\* Select returns the one of them that comes first in the roster (the case
\* of a highest score of zero is left to the fallback rule).
C16_TieGoesToFirstInRoster ==
    (/\ Selected
     /\ Cardinality(Top) >= 2
     /\ \A a \in Top : ScoreOf(a) > 0) =>
        session.PM = FirstInRoster(Top)

\* C17: when every available candidate scores zero or no member of the
\* roster is a known candidate, Select returns "claude" if it is in the
\* roster and the first member of the roster otherwise.
C17_FallbackIsClaudeOrFirst ==
    (/\ Selected
     /\ opts.Members # <<>>
     /\ \A a \in Available : ScoreOf(a) = 0) =>
        session.PM = IF InRoster("claude", opts.Members) THEN "claude" ELSE opts.Members[1]

\* C18: for every task text and every non-empty roster the member Select
\* returns is a member of that roster.
C18_SelectedIsInRoster ==
    (Selected /\ opts.Members # <<>>) =>
        /\ session.PM # ""
        /\ InRoster(session.PM, opts.Members)

\* C18: a roster of three, the last of them selected
C18_Witness ==
    /\ Selected
    /\ Len(opts.Members) = 3
    /\ session.PM = opts.Members[3]
    /\ Cardinality(Available) = 2

\* C19: RequiresApproval answers false for every checkpoint type at level
\* none, true for every type at level all, and at level major true for
\* plan_approval and delivery and false for milestone and review.
C19_RequiresApprovalTable ==
    required.Type # "" =>
       /\ cm.level = "none" => ~required.ok
       /\ cm.level = "all" => required.ok
       /\ cm.level = "major" =>
             (required.ok <=> required.Type \in {"plan_approval", "delivery"})

\* C19: at level major the manager was asked about a milestone and said no
C19_Witness ==
    /\ cm.level = "major"
    /\ required.Type = "milestone"
    /\ ~required.ok

\* C26: the debug log never holds more than 100 entries, and the entries it
\* holds are the last ones added, in the order they were added: the i-th
\* entry of the log is the (logged - Len + i)-th entry ever added.
C26_DebugLogKeepsLast100 ==
    /\ Len(m.debugLog) <= 100
    /\ Len(m.debugLog) = IF m.logged < 100 THEN m.logged ELSE 100
    /\ \A i \in DOMAIN m.debugLog :
          m.debugLog[i].Timestamp = m.logged - Len(m.debugLog) + i

\* C26: more than 100 entries were added, the log holds 100 of them
C26_Witness ==
    /\ m.logged > 100
    /\ Len(m.debugLog) = 100
    /\ m.debugLog[1].Timestamp = m.logged - 99

\* the step of Update that applies the one delivered event
ApplyStep ==
    /\ msgs # <<>>
    /\ lastApplied' = msgs[1].Timestamp
    /\ lastApplied' # lastApplied

\* the event refers to a task that has no card
UnknownTask(e) ==
    \/ /\ e.Type \in {"TaskStarted", "TaskProgress", "TaskCompleted", "TaskMovedToReview",
                      "PMApproved"}
       /\ e.TaskID \notin DOMAIN m.cards
    \/ /\ e.Type = "Error"
       /\ e.Data.kind = "ErrorData"
       /\ e.Data.TaskID \notin DOMAIN m.cards

\* the payload of the event is not of the type of its event type
WrongPayload(e) ==
    \/ e.Type \in {"TaskCreated", "UserTaskCreated"} /\ e.Data.kind # "TaskCreatedData"
    \/ e.Type = "TaskProgress" /\ e.Data.kind # "TaskProgressData"
    \/ e.Type = "Error" /\ e.Data.kind # "ErrorData"

\* C23: an event about a task without a card, or with a payload of the
\* wrong type, leaves the card map, the card objects and the four column
\* lists as they were: no card is created, moved or written.
C23_UnknownOrMalformedIgnored ==
    [][(ApplyStep /\ (UnknownTask(msgs[1]) \/ WrongPayload(msgs[1]))) =>
          /\ m'.cards = m.cards
          /\ m'.heap = m.heap
          /\ m'.columns = m.columns]_vars

\* C23: three events were applied, one of them created the card of step_1;
\* the two others left no second log entry and the card as it was created
C23_Witness ==
    /\ DOMAIN m.cards = {"step_1"}
    /\ Len(m.heap) = 1
    /\ lastApplied = 3
    /\ m.logged = 4
    /\ m.columns[ColumnBacklog] = <<1>>
    /\ m.heap[1] = [NewKanbanCard("step_1", "gpt") EXCEPT !.IsBlocking = FALSE]

\* the column an event type moves its card to
TargetColumn(type) ==
    CASE type = "TaskStarted" -> ColumnInProgress
      [] type = "TaskCompleted" -> ColumnReview
      [] type = "PMApproved" -> ColumnDone
      [] OTHER -> ColumnBacklog

\* a column list of board km without the cards of task id
Without(km, c, id) ==
    SelectSeq(km.columns[c], LAMBDA q : km.heap[q].ID # id)

\* the cards of other tasks than id are where they were: by their Column
\* field and in the column lists, which hold them in the same order
OthersStay(id) ==
    /\ \A p \in DOMAIN m.heap :
          m.heap[p].ID # id => m'.heap[p].Column = m.heap[p].Column
    /\ \A c \in Columns : Without(m', c, id) = Without(m, c, id)
    /\ \A p \in DOMAIN m'.heap : p \notin DOMAIN m.heap => m'.heap[p].ID = id

\* C24: task-created puts a new card at the end of Backlog; for a task that
\* has a card, task-started puts the card in InProgress and makes it the
\* active card, task-completed puts it in Review and pm-approved in Done,
\* the card being in the list of that column and of no other; the cards of
\* the other tasks stay where they are.
C24_TransitionPerEvent ==
    [][ApplyStep =>
          LET e == msgs[1]
          IN  /\ (e.Type = "TaskCreated" /\ ~WrongPayload(e)) =>
                    /\ Len(m'.heap) = Len(m.heap) + 1
                    /\ m'.cards[e.TaskID] = Len(m'.heap)
                    /\ m'.heap[Len(m'.heap)].Column = ColumnBacklog
                    /\ m'.columns[ColumnBacklog] = Append(m.columns[ColumnBacklog], Len(m'.heap))
                    /\ OthersStay(e.TaskID)
              /\ (e.Type \in {"TaskStarted", "TaskCompleted", "PMApproved"}
                  /\ e.TaskID \in DOMAIN m.cards) =>
                    /\ m'.cards = m.cards
                    /\ m'.heap[m.cards[e.TaskID]].Column = TargetColumn(e.Type)
                    /\ Places(m', m.cards[e.TaskID]) =
                         {<<TargetColumn(e.Type), Len(m'.columns[TargetColumn(e.Type)])>>}
                    /\ e.Type = "TaskStarted" => m'.activeCardID = e.TaskID
                    /\ OthersStay(e.TaskID)]_vars

\* C24: two cards, the first moved to InProgress and active, the second
\* still in Backlog
C24_Witness ==
    /\ DOMAIN m.cards = {"step_1", "step_2"}
    /\ m.heap[m.cards["step_1"]].Column = ColumnInProgress
    /\ m.heap[m.cards["step_2"]].Column = ColumnBacklog
    /\ m.activeCardID = "step_1"
    /\ m.columns[ColumnBacklog] = <<m.cards["step_2"]>>

\* C25: a task-progress event appends its fragment to the stream buffer and
\* to the history of the card and sets the card's progress; an error event
\* sets the error flag of the card it names; neither changes the column of
\* a card, a column list or the active card.
C25_ProgressAndErrorKeepColumns ==
    [][ApplyStep =>
          LET e == msgs[1]
          IN  /\ (e.Type = "TaskProgress" /\ ~WrongPayload(e) /\ e.TaskID \in DOMAIN m.cards) =>
                    LET p == m.cards[e.TaskID]
                    IN  /\ m'.heap[p].StreamBuf = Append(m.heap[p].StreamBuf, e.Data.Content)
                        /\ m'.heap[p].FullHistory = Append(m.heap[p].FullHistory, e.Data.Content)
                        /\ m'.heap[p].Progress = e.Data.Progress
              /\ (e.Type = "Error" /\ ~WrongPayload(e) /\ e.Data.TaskID \in DOMAIN m.cards) =>
                    m'.heap[m.cards[e.Data.TaskID]].Error
              /\ e.Type \in {"TaskProgress", "Error"} =>
                    /\ m'.columns = m.columns
                    /\ m'.activeCardID = m.activeCardID
                    /\ m'.cards = m.cards
                    /\ \A p \in DOMAIN m.heap : m'.heap[p].Column = m.heap[p].Column]_vars

\* C25: a card in InProgress that has received a fragment and then an error
C25_Witness ==
    /\ "step_1" \in DOMAIN m.cards
    /\ m.heap[m.cards["step_1"]].Column = ColumnBacklog
    /\ m.heap[m.cards["step_1"]].StreamBuf = <<"c">>
    /\ m.heap[m.cards["step_1"]].Progress = HalfDone
    /\ m.heap[m.cards["step_1"]].Error

\* C21: once closed the channel stays closed and nothing is sent on it (no
\* effect of the run follows the close); it is closed only when Run has
\* returned and no worker is at work; a receive on the closed and empty
\* channel delivers no message, leaves the board as it is and leaves no
\* listener behind, and no listener appears afterwards.
C21_ClosedOnceAfterRun ==
    [][/\ closed =>
             /\ closed'
             /\ trace' = trace
             /\ Len(Events') <= Len(Events)
       /\ (~closed /\ closed') =>
             /\ pc = "returned"
             /\ \A idx \in DOMAIN wpc : wpc[idx] \in {"idle", "returned"}
       /\ (closed /\ Events = <<>> /\ msgs = <<>>) =>
             /\ listening' \in {listening, 0}
             /\ msgs' = msgs
             /\ lastApplied' = lastApplied
             /\ m'.cards = m.cards /\ m'.heap = m.heap /\ m'.columns = m.columns]_vars

\* C21: the run is complete, the channel closed and drained, the board has
\* applied the last event and its listener has returned
C21_Witness ==
    /\ closed
    /\ pc = "returned"
    /\ session.Mode = "divide_conquer"
    /\ Events = <<>> /\ msgs = <<>>
    /\ listening = 0
    /\ m.complete

\* the effects a step adds to the log
NewEffects ==
    {trace'[i] : i \in (Len(trace) + 1)..Len(trace')}

\* C22: after the user has quit the board the orchestration makes no new
\* model invocation (no Invoke and no Stream call).
C22_QuitStopsOrchestration ==
    [][m.quitting => \A x \in NewEffects : x.k \notin {"invoke", "stream"}]_vars

\* the position of Run in which the executor of a mode starts
ExecutorOf(mode) ==
    CASE mode = "pair_programming" -> "pair_driver"
      [] mode = "consultation" -> "consult_init"
      [] mode = "round_robin" -> "round_robin"
      [] mode = "divide_conquer" -> "dc_divide"
      [] mode = "free_form" -> "ff_members"

\* C27: once the plan is parsed the mode of the session is the mode the
\* caller forced, if any; otherwise the mode named by the MODE: line of the
\* PM's reply; and free_form when the reply has no MODE: line.  Execute
\* starts the executor of that mode.
C27_ModeForcedElsePlanned ==
    /\ [](loc.resp # <<>> =>
            /\ opts.Mode # "" => session.Mode = opts.Mode
            /\ (opts.Mode = "" /\ loc.resp[1].modeLine \in
                  {"pair_programming", "consultation", "round_robin", "divide_conquer",
                   "free_form"}) => session.Mode = loc.resp[1].modeLine
            /\ (opts.Mode = "" /\ loc.resp[1].modeLine = "") => session.Mode = "free_form")
    /\ [][(pc = "execute" /\ pc' # "execute" /\ runResult' # "err") =>
             pc' = ExecutorOf(session.Mode)]_vars

\* C27: round robin was forced, the PM's reply says divide_conquer, the run
\* is about to execute round robin
C27_Witness ==
    /\ pc = "execute"
    /\ opts.Mode = "round_robin"
    /\ loc.resp # <<>>
    /\ loc.resp[1].modeLine = "divide_conquer"
    /\ session.Mode = "round_robin"

\* the member that calls j-th in a pair session whose first driver is a and
\* whose first navigator is b: a, b, b, a, a, b
PairCaller(a, b, j) ==
    IF (((j - 1) \div 2) % 2 = 0) = (j % 2 = 1) THEN a ELSE b

PairRole(j) ==
    IF j % 2 = 1 THEN "driver" ELSE "navigator"

\* C28: pair programming with fewer than 2 members fails without a model
\* call; with at least 2 members and no failed call it makes exactly 3
\* iterations of a driver call followed by a navigator call, the same two
\* members swapping roles after each iteration, and returns one artifact
\* whose content is the six outputs in the order of the calls.
C28_PairProgramming ==
    session.Mode = "pair_programming" =>
       /\ N < 2 =>
             /\ ExecInvokes = <<>>
             /\ session.Artifacts = <<>>
             /\ pc \in {"pair_driver", "pair_navigator", "review"} => FALSE
       /\ (N >= 2 /\ \A j \in DOMAIN ExecInvokes : ExecInvokes[j].ok) =>
             /\ Len(ExecInvokes) <= 2 * PairIterations
             /\ Len(ExecInvokes) >= 2 =>
                   /\ ExecInvokes[1].who # ExecInvokes[2].who
                   /\ \A j \in DOMAIN ExecInvokes :
                         ExecInvokes[j].who =
                            PairCaller(ExecInvokes[1].who, ExecInvokes[2].who, j)
             /\ \A j \in DOMAIN ExecInvokes :
                   ExecInvokes[j].who \in {session.Members[k] : k \in 1..N}
             /\ session.Artifacts # <<>> =>
                   /\ Len(session.Artifacts) = 1
                   /\ Len(ExecInvokes) = 2 * PairIterations
                   /\ session.Artifacts[1].Content =
                         [j \in 1..(2 * PairIterations) |->
                            Block(PairRole(j), ExecInvokes[j].who, ((j - 1) \div 2) + 1)]
             /\ (Len(ExecInvokes) = 2 * PairIterations /\ pc \notin {"pair_driver", "pair_navigator"})
                   => Len(session.Artifacts) = 1

\* C28: three members with the first one the PM, six successful calls, the
\* artifact returned
C28_Witness ==
    /\ session.Mode = "pair_programming"
    /\ N = 3
    /\ session.Members[1] = session.PM
    /\ Len(ExecInvokes) = 2 * PairIterations
    /\ \A j \in DOMAIN ExecInvokes : ExecInvokes[j].ok
    /\ Len(session.Artifacts) = 1
    /\ Len(session.Artifacts[1].Content) = 2 * PairIterations

\* C28: one member, the run has ended in the error of the executor
C28_WitnessTooFew ==
    /\ session.Mode = "pair_programming"
    /\ N < 2
    /\ session.Phase = PhaseExecution
    /\ runResult = "err"

\* every chunk sent on the stream so far, received or not
Sent ==
    stream.got \o stream.ch

Terminal(chunk) ==
    chunk.Done \/ chunk.Error

\* C29: a provider stream is terminated exactly once: when its channel is
\* closed the last chunk sent is a Done chunk or an Error chunk and not
\* both, and at no time does a chunk follow a Done or Error chunk.
C29_TerminatedExactlyOnce ==
    stream.provider # "" =>
       /\ \A j \in 1..(Len(Sent) - 1) : ~Terminal(Sent[j])
       /\ stream.closed =>
             /\ Sent # <<>>
             /\ Terminal(Sent[Len(Sent)])
             /\ ~(Sent[Len(Sent)].Done /\ Sent[Len(Sent)].Error)

\* C29: the part that holds: no chunk follows a Done or Error chunk, and no
\* chunk is both
C29_NothingAfterTerminal ==
    stream.provider # "" =>
       /\ \A j \in 1..(Len(Sent) - 1) : ~Terminal(Sent[j])
       /\ \A j \in DOMAIN Sent : ~(Sent[j].Done /\ Sent[j].Error)

\* the effects of the step in their order, and the file writes among them
NewEntries ==
    SubSeq(trace', Len(trace) + 1, Len(trace'))

NewWrites ==
    SelectSeq(NewEntries, LAMBDA x : x.k = "fs")

\* C30: whatever the saves of the artifacts and the write of the summary
\* return, deliver attempts every artifact (when a project directory is set)
\* and then the summary, Run sets the phase Complete, emits SessionComplete
\* and returns no error.
C30_DeliveryIsBestEffort ==
    [][pc = "deliver" =>
         /\ pc' = "returned"
         /\ runResult' = "ok"
         /\ session'.Phase = PhaseComplete
         /\ NewEntries # <<>>
         /\ NewEntries[Len(NewEntries)].k = "emit"
         /\ NewEntries[Len(NewEntries)].ev.Type = "SessionComplete"
         /\ LET saved == IF session.ProjectDir # "" THEN Len(session.Artifacts) ELSE 0
            IN  /\ Len(NewWrites) = saved + 1
                /\ \A k \in 1..saved : NewWrites[k].who = session.Artifacts[k].Name
                /\ NewWrites[saved + 1].who = "SESSION_SUMMARY.md"]_vars

\* C30: the save of the artifact and the write of the summary both failed
\* and the run has ended without error in the phase Complete
C30_Witness ==
    /\ runResult = "ok"
    /\ session.Phase = PhaseComplete
    /\ session.Artifacts # <<>>
    /\ \E j \in DOMAIN trace :
          /\ trace[j].k = "fs" /\ trace[j].ph = PhaseDelivery /\ ~trace[j].ok
          /\ trace[j].who = session.Artifacts[1].Name
    /\ \E j \in DOMAIN trace :
          /\ trace[j].k = "fs" /\ trace[j].ph = PhaseDelivery /\ ~trace[j].ok
          /\ trace[j].who = "SESSION_SUMMARY.md"
    /\ trace[Len(trace)].k = "emit"
    /\ trace[Len(trace)].ev.Type = "SessionComplete"

\* message k of msgs has been taken out
Taken(k) ==
    /\ k \in 1..Len(msgs)
    /\ msgs' = [j \in 1..(Len(msgs) - 1) |-> IF j < k THEN msgs[j] ELSE msgs[j + 1]]

Decided(c) ==
    c.Approved \/ c.Notes # ""

\* C32: once Approve or Reject has been applied to a checkpoint, no later
\* step changes its approved flag, its approval time or its notes.
C32_CheckpointDecidedOnce ==
    [][\A i \in DOMAIN cm.checkpoints :
          Decided(cm.checkpoints[i]) =>
             /\ cm'.checkpoints[i].Approved = cm.checkpoints[i].Approved
             /\ cm'.checkpoints[i].ApprovedAt = cm.checkpoints[i].ApprovedAt
             /\ cm'.checkpoints[i].Notes = cm.checkpoints[i].Notes]_vars

\* the positions of the trace at which an event of one of the types is emitted
EmitsOf(types) ==
    {j \in DOMAIN trace : trace[j].k = "emit" /\ trace[j].ev.Type \in types}

\* C33: a mode executor that has returned after calling a model has emitted
\* a task-started event, and every task-started event it emitted is followed
\* by a task-completed or an error event for the same task ID.
C33_ExecutorsReportTasks ==
    session.Phase \in {PhaseReview, PhaseDelivery, PhaseComplete} =>
       /\ ExecInvokes # <<>> => EmitsOf({"TaskStarted"}) # {}
       /\ \A j \in EmitsOf({"TaskStarted"}) :
             \E i \in EmitsOf({"TaskCompleted", "Error"}) :
                i > j /\ trace[i].ev.TaskID = trace[j].ev.TaskID

\* the events emitted for a task ID, in the order of their emission
EventsOf(id) ==
    SelectSeq(trace, LAMBDA x : x.k = "emit" /\ x.ev.TaskID = id)

\* C34: the events of the subtask of a divide-and-conquer worker that has
\* returned are task-started, then task-progress events only, then one
\* terminal event: task-completed if the worker succeeded, error if it
\* failed; nothing follows the terminal event.
C34_SubtaskEventOrder ==
    session.Mode = "divide_conquer" =>
       \A idx \in DOMAIN wpc :
          wpc[idx] = "returned" =>
             LET evs == EventsOf(SubtaskIDs[idx])
             IN  /\ Len(evs) >= 2
                 /\ evs[1].ev.Type = "TaskStarted"
                 /\ \A j \in 2..(Len(evs) - 1) : evs[j].ev.Type = "TaskProgress"
                 /\ evs[Len(evs)].ev.Type =
                       (IF errors[idx] THEN "Error" ELSE "TaskCompleted")

\* C34: the part that holds: the events of a subtask start with
\* task-started, and nothing follows its task-completed or error event
C34_NothingAfterTerminalEvent ==
    session.Mode = "divide_conquer" =>
       \A idx \in DOMAIN wpc :
          LET evs == EventsOf(SubtaskIDs[idx])
          IN  /\ evs # <<>> => evs[1].ev.Type = "TaskStarted"
              /\ \A j \in 1..(Len(evs) - 1) : evs[j].ev.Type \in {"TaskStarted", "TaskProgress"}
              /\ \A j \in 2..Len(evs) : evs[j].ev.Type # "TaskStarted"

\* C35: every task-started, task-progress, task-completed or task-scoped
\* error event of a run is emitted after a task-created event with the same
\* task ID.
C35_TaskEventsAreAnnounced ==
    \A j \in EmitsOf({"TaskStarted", "TaskProgress", "TaskCompleted", "Error"}) :
       trace[j].ev.TaskID # "" =>
          \E i \in EmitsOf({"TaskCreated"}) :
             i < j /\ trace[i].ev.TaskID = trace[j].ev.TaskID

\* C36: a step changes the result or error slot of a worker only if it is
\* the step in which that worker returns, and it changes no other slot; the
\* merge call is made after every worker has returned and its prompt lists
\* the results of the workers that did not fail by member index, whatever
\* the order in which the workers returned.
C36_MergeInRosterOrder ==
    [][/\ \A k \in DOMAIN wpc :
             (results'[k] # results[k] \/ errors'[k] # errors[k]) =>
                /\ wpc[k] \in {"stream", "chunks"}
                /\ wpc'[k] = "returned"
                /\ \A j \in DOMAIN wpc \ {k} :
                      results'[j] = results[j] /\ errors'[j] = errors[j]
       /\ MergeStep =>
             LET prompt == trace'[Len(trace) + 1].arg
             IN  /\ \A k \in DOMAIN wpc : wpc[k] = "returned"
                 /\ \A a, b \in DOMAIN prompt : a < b => prompt[a].round < prompt[b].round
                 /\ \A a \in DOMAIN prompt :
                       /\ prompt[a].by = session.Members[prompt[a].round]
                       /\ results[prompt[a].round] = <<prompt[a]>>
                 /\ \A k \in DOMAIN wpc :
                       results[k] # <<>> => \E a \in DOMAIN prompt : prompt[a].round = k]_vars

\* C36: three workers, of which the third completed first and the first
\* last; the merge call was made with the three results in roster order
C36_Witness ==
    /\ session.Mode = "divide_conquer"
    /\ pc = "review"
    /\ N = 3
    /\ \E a, b, c \in CompletedEmits :
          /\ a < b /\ b < c
          /\ trace[a].ev.TaskID = SubtaskIDs[3]
          /\ trace[b].ev.TaskID = SubtaskIDs[2]
          /\ trace[c].ev.TaskID = SubtaskIDs[1]
    /\ Len(ExecInvokes) = 2
    /\ [a \in 1..3 |-> ExecInvokes[2].arg[a].by] = session.Members

\* C37: the active card of the board is unset or is a card of the card map
\* that is in the InProgress column.
C37_ActiveCardIsInProgress ==
    m.activeCardID # "" =>
       /\ hasCard(m, m.activeCardID)
       /\ m.heap[m.cards[m.activeCardID]].Column = ColumnInProgress

\* C38: whenever the selected column has cards, selectedRow is an index into
\* it and the card getSelectedCard returns is the card renderColumn shows as
\* selected.
C38_SelectedRowIsValid ==
    Len(m.columns[m.selectedCol]) > 0 =>
       /\ m.selectedRow \in 0..(Len(m.columns[m.selectedCol]) - 1)
       /\ getSelectedCard(m) = renderedSelected(m)

\* C39: when the run has failed, what RunTeamTUI has returned or returns
\* later is the error of the run, whether the user quit before or after the
\* run ended.
C39_TuiReturnsRunError ==
    (runResult = "err" /\ tuiErr # "running") => tuiErr = "team error"

\* C39: the part that holds: a failed run whose goroutine has closed the
\* events channel before the user quits makes RunTeamTUI return its error
C39_ErrorAfterCloseIsReturned ==
    [][(closed /\ runResult = "err" /\ tuiErr = "running" /\ tuiErr' # "running")
          => tuiErr' = "team error"]_vars

\* C40: a run is never in the Planning phase with an empty PM; with no PM
\* forced and an empty roster the selection of the PM fails: Run emits an
\* error event and returns its error in the Analysis phase, with no
\* pm-selected event.
C40_NoPlanningWithoutPM ==
    /\ session.Phase = PhasePlanning => session.PM # ""
    /\ (opts.PM = "" /\ opts.Members = <<>> /\ pc \notin {"start", "selectPM"}) =>
          /\ runResult = "err"
          /\ session.Phase = PhaseAnalysis
          /\ EmitsOf({"Error"}) # {}
          /\ EmitsOf({"PMSelected"}) = {}

====
